---- MODULE Spec2Model ----
(***************************************************************************)
(* Model of the career-guidance backend's generation orchestrator          *)
(* (services/ai_service.py, class AIService) and of the route handlers     *)
(* that call it.  Text is modelled as a sequence of one-character strings, *)
(* so that containment tests, lower(), split(), strip() and join() are     *)
(* computed as Python computes them.                                       *)
(***************************************************************************)
EXTENDS Integers, Sequences, FiniteSets, TLC

VARIABLES
  env,                  \* outcome of every environment-dependent step of start-up
  VERTEX_AI_AVAILABLE,  \* module-level flag: the cloud libraries were importable
  vertex_ai_available,  \* self.vertex_ai_available
  model,                \* self.model is not None
  firestore_client,     \* self.firestore_client is not None
  fallback_apis,        \* self.fallback_apis
  pc,                   \* position of the running call
  op,                   \* operation being executed
  args,                 \* its arguments
  attempts,             \* provider stages requested so far in this call, in order
  ai_response,          \* text returned by _generate_with_fallback_ai
  questions,            \* local variable `questions` of generate_mock_test
  result,               \* value handed back to the caller
  source,               \* stage whose output became the artifact
  status,               \* "none", "returned" or "raised"
  writes,               \* persistence writes attempted in this call
  route,                \* "direct", or the HTTP route whose handler made the call
  response,             \* HTTP response of that handler
  stored_skills         \* skill string kept by the user-profile collaborator

vars == <<env, VERTEX_AI_AVAILABLE, vertex_ai_available, model, firestore_client,
          fallback_apis, pc, op, args, attempts, ai_response, questions, result,
          source, status, writes, route, response, stored_skills>>

svc == <<env, VERTEX_AI_AVAILABLE, vertex_ai_available, model, firestore_client,
         fallback_apis, stored_skills>>

-----------------------------------------------------------------------------
(* Bounds of the model                                                      *)

\* number of fragments a chat message is assembled from (pure-function runs)
MaxFrags == 2
\* number of comma-separated entries of the stored skill string (pure-function runs)
MaxCur == 2
\* largest number of list entries a provider answer carries beyond the asked size
MaxExtra == 1

-----------------------------------------------------------------------------
(* Python string primitives                                                 *)

\* one character of str.lower(): the 26 ASCII capitals map to their small
\* letters, every other character stays
LowerChar(c) ==
  CASE c = "A" -> "a" []
    c = "B" -> "b" []
    c = "C" -> "c" []
    c = "D" -> "d" []
    c = "E" -> "e" []
    c = "F" -> "f" []
    c = "G" -> "g" []
    c = "H" -> "h" []
    c = "I" -> "i" []
    c = "J" -> "j" []
    c = "K" -> "k" []
    c = "L" -> "l" []
    c = "M" -> "m" []
    c = "N" -> "n" []
    c = "O" -> "o" []
    c = "P" -> "p" []
    c = "Q" -> "q" []
    c = "R" -> "r" []
    c = "S" -> "s" []
    c = "T" -> "t" []
    c = "U" -> "u" []
    c = "V" -> "v" []
    c = "W" -> "w" []
    c = "X" -> "x" []
    c = "Y" -> "y" []
    c = "Z" -> "z" []
    OTHER -> c

\* str.lower()
Lower(s) == IF s = <<>> THEN <<>> ELSE [i \in 1..Len(s) |-> LowerChar(s[i])]

\* `pat in s`
Contains(pat, s) ==
  \/ pat = <<>>
  \/ \E i \in 0..(Len(s) - Len(pat)) :
       s[i + 1] = pat[1] /\ SubSeq(s, i + 1, i + Len(pat)) = pat

\* any(word in s for word in words)
AnyIn(words, s) == \E k \in 1..Len(words) : Contains(words[k], s)

\* `x in [a, b, c]` for strings
InList(x, list) == \E k \in 1..Len(list) : list[k] = x

\* str.find(c): 0-based index of the first occurrence, -1 when absent
Find(s, c) ==
  IF \E i \in 1..Len(s) : s[i] = c
  THEN (CHOOSE i \in 1..Len(s) : s[i] = c /\ \A j \in 1..(i - 1) : s[j] # c) - 1
  ELSE -1

\* str.rfind(c): 0-based index of the last occurrence, -1 when absent
RFind(s, c) ==
  IF \E i \in 1..Len(s) : s[i] = c
  THEN (CHOOSE i \in 1..Len(s) : s[i] = c /\ \A j \in (i + 1)..Len(s) : s[j] # c) - 1
  ELSE -1

\* s[start:end] for 0 <= start, 0 <= end
Slice(s, start, end) ==
  LET e == IF end > Len(s) THEN Len(s) ELSE end
  IN  IF start >= e THEN <<>> ELSE SubSeq(s, start + 1, e)

\* s[:limit], negative limits counting from the end
Prefix(s, limit) ==
  IF limit >= 0 THEN Slice(s, 0, limit)
  ELSE IF Len(s) + limit <= 0 THEN <<>> ELSE SubSeq(s, 1, Len(s) + limit)

IsSpace(c) == c = " "

\* str.strip()
RECURSIVE LStrip(_)
LStrip(s) == IF s # <<>> /\ IsSpace(s[1]) THEN LStrip(Tail(s)) ELSE s

RECURSIVE RStrip(_)
RStrip(s) ==
  IF s # <<>> /\ IsSpace(s[Len(s)]) THEN RStrip(SubSeq(s, 1, Len(s) - 1)) ELSE s

Strip(s) == RStrip(LStrip(s))

\* str.split(","): one more part than there are commas
RECURSIVE Split(_)
Split(s) ==
  LET i == Find(s, ",")
  IN  IF i = -1 THEN <<s>>
      ELSE <<Slice(s, 0, i)>> \o Split(Slice(s, i + 1, Len(s)))

\* sep.join(list)
RECURSIVE Join(_, _)
Join(list, sep) ==
  IF list = <<>> THEN <<>>
  ELSE IF Len(list) = 1 THEN list[1]
  ELSE list[1] \o sep \o Join(Tail(list), sep)

\* [f(x) for x in list if keep(x)] helpers
RECURSIVE StripNonEmpty(_)
StripNonEmpty(parts) ==
  IF parts = <<>> THEN <<>>
  ELSE LET x == Strip(parts[1])
       IN  (IF x # <<>> THEN <<x>> ELSE <<>>) \o StripNonEmpty(Tail(parts))

-----------------------------------------------------------------------------
(* Static skill extraction: AIService._extract_skills_fallback              *)

skill_patterns == <<
     <<<<"p","y","t","h","o","n">>, <<"P","y","t","h","o","n">>>>,
     <<<<"j","a","v","a","s","c","r","i","p","t">>, <<"J","a","v","a","S","c","r","i","p","t">>>>,
     <<<<"j","a","v","a">>, <<"J","a","v","a">>>>,
     <<<<"c","#">>, <<"C","#">>>>,
     <<<<"c","+","+">>, <<"C","+","+">>>>,
     <<<<"t","y","p","e","s","c","r","i","p","t">>, <<"T","y","p","e","S","c","r","i","p","t">>>>,
     <<<<"p","h","p">>, <<"P","H","P">>>>,
     <<<<"r","u","b","y">>, <<"R","u","b","y">>>>,
     <<<<"g","o">>, <<"G","o">>>>,
     <<<<"r","u","s","t">>, <<"R","u","s","t">>>>,
     <<<<"s","w","i","f","t">>, <<"S","w","i","f","t">>>>,
     <<<<"k","o","t","l","i","n">>, <<"K","o","t","l","i","n">>>>,
     <<<<"r","e","a","c","t">>, <<"R","e","a","c","t">>>>,
     <<<<"v","u","e">>, <<"V","u","e",".","j","s">>>>,
     <<<<"a","n","g","u","l","a","r">>, <<"A","n","g","u","l","a","r">>>>,
     <<<<"h","t","m","l">>, <<"H","T","M","L">>>>,
     <<<<"c","s","s">>, <<"C","S","S">>>>,
     <<<<"b","o","o","t","s","t","r","a","p">>, <<"B","o","o","t","s","t","r","a","p">>>>,
     <<<<"t","a","i","l","w","i","n","d">>, <<"T","a","i","l","w","i","n","d"," ","C","S","S">>>>,
     <<<<"s","a","s","s">>, <<"S","A","S","S">>>>,
     <<<<"j","q","u","e","r","y">>, <<"j","Q","u","e","r","y">>>>,
     <<<<"n","o","d","e",".","j","s">>, <<"N","o","d","e",".","j","s">>>>,
     <<<<"n","o","d","e","j","s">>, <<"N","o","d","e",".","j","s">>>>,
     <<<<"e","x","p","r","e","s","s">>, <<"E","x","p","r","e","s","s",".","j","s">>>>,
     <<<<"d","j","a","n","g","o">>, <<"D","j","a","n","g","o">>>>,
     <<<<"f","l","a","s","k">>, <<"F","l","a","s","k">>>>,
     <<<<"s","p","r","i","n","g">>, <<"S","p","r","i","n","g">>>>,
     <<<<"l","a","r","a","v","e","l">>, <<"L","a","r","a","v","e","l">>>>,
     <<<<"r","a","i","l","s">>, <<"R","u","b","y"," ","o","n"," ","R","a","i","l","s">>>>,
     <<<<"s","q","l">>, <<"S","Q","L">>>>,
     <<<<"m","y","s","q","l">>, <<"M","y","S","Q","L">>>>,
     <<<<"p","o","s","t","g","r","e","s","q","l">>, <<"P","o","s","t","g","r","e","S","Q","L">>>>,
     <<<<"m","o","n","g","o","d","b">>, <<"M","o","n","g","o","D","B">>>>,
     <<<<"s","q","l","i","t","e">>, <<"S","Q","L","i","t","e">>>>,
     <<<<"r","e","d","i","s">>, <<"R","e","d","i","s">>>>,
     <<<<"f","i","r","e","s","t","o","r","e">>, <<"F","i","r","e","s","t","o","r","e">>>>,
     <<<<"d","o","c","k","e","r">>, <<"D","o","c","k","e","r">>>>,
     <<<<"k","u","b","e","r","n","e","t","e","s">>, <<"K","u","b","e","r","n","e","t","e","s">>>>,
     <<<<"a","w","s">>, <<"A","W","S">>>>,
     <<<<"a","z","u","r","e">>, <<"A","z","u","r","e">>>>,
     <<<<"g","c","p">>, <<"G","o","o","g","l","e"," ","C","l","o","u","d"," ","P","l","a","t","f","o","r","m">>>>,
     <<<<"g","i","t">>, <<"G","i","t">>>>,
     <<<<"j","e","n","k","i","n","s">>, <<"J","e","n","k","i","n","s">>>>,
     <<<<"t","e","r","r","a","f","o","r","m">>, <<"T","e","r","r","a","f","o","r","m">>>>,
     <<<<"m","a","c","h","i","n","e"," ","l","e","a","r","n","i","n","g">>, <<"M","a","c","h","i","n","e"," ","L","e","a","r","n","i","n","g">>>>,
     <<<<"t","e","n","s","o","r","f","l","o","w">>, <<"T","e","n","s","o","r","F","l","o","w">>>>,
     <<<<"p","y","t","o","r","c","h">>, <<"P","y","T","o","r","c","h">>>>,
     <<<<"p","a","n","d","a","s">>, <<"P","a","n","d","a","s">>>>,
     <<<<"n","u","m","p","y">>, <<"N","u","m","P","y">>>>,
     <<<<"s","c","i","k","i","t","-","l","e","a","r","n">>, <<"S","c","i","k","i","t","-","l","e","a","r","n">>>>,
     <<<<"a","p","i">>, <<"A","P","I"," ","D","e","v","e","l","o","p","m","e","n","t">>>>,
     <<<<"r","e","s","t">>, <<"R","E","S","T"," ","A","P","I","s">>>>,
     <<<<"g","r","a","p","h","q","l">>, <<"G","r","a","p","h","Q","L">>>>,
     <<<<"m","i","c","r","o","s","e","r","v","i","c","e","s">>, <<"M","i","c","r","o","s","e","r","v","i","c","e","s">>>>,
     <<<<"a","g","i","l","e">>, <<"A","g","i","l","e">>>>,
     <<<<"s","c","r","u","m">>, <<"S","c","r","u","m">>>>
  >>

ExpertCues == <<<<"e","x","p","e","r","t">>, <<"m","a","s","t","e","r","e","d">>, <<"a","d","v","a","n","c","e","d">>, <<"p","r","o","f","i","c","i","e","n","t">>>>
IntermediateCues == <<<<"e","x","p","e","r","i","e","n","c","e","d">>, <<"w","o","r","k","e","d"," ","w","i","t","h">>, <<"u","s","i","n","g">>, <<"g","o","o","d"," ","a","t">>>>
BeginnerCues == <<<<"l","e","a","r","n","e","d">>, <<"l","e","a","r","n","i","n","g">>, <<"s","t","a","r","t","e","d">>, <<"n","e","w"," ","t","o">>>>
ImprovedCues == <<<<"i","m","p","r","o","v","e","d">>, <<"b","e","t","t","e","r">>, <<"a","d","v","a","n","c","e","d">>>>

\* the chain testing the beginner cues before the others
InferLevelBeginnerFirst(message_lower) ==
  IF AnyIn(BeginnerCues, message_lower) THEN "beginner"
  ELSE IF AnyIn(ExpertCues, message_lower) THEN "expert"
  ELSE IF AnyIn(IntermediateCues, message_lower) THEN "intermediate"
  ELSE IF AnyIn(ImprovedCues, message_lower) THEN "intermediate"
  ELSE "beginner"

\* the if/elif chain of lines 1369-1378; it reads the whole lower-cased message
InferLevel(message_lower) ==
  IF AnyIn(ExpertCues, message_lower) THEN "expert"
  ELSE IF AnyIn(IntermediateCues, message_lower) THEN "intermediate"
  ELSE IF AnyIn(BeginnerCues, message_lower) THEN "beginner"
  ELSE IF AnyIn(ImprovedCues, message_lower) THEN "intermediate"
  ELSE "beginner"

\* the loop over skill_patterns.items(), in insertion order
RECURSIVE MatchPatterns(_, _)
MatchPatterns(message_lower, k) ==
  IF k > Len(skill_patterns) THEN <<>>
  ELSE (IF Contains(skill_patterns[k][1], message_lower)
        THEN <<[skill |-> skill_patterns[k][2],
                expertise_level |-> InferLevel(message_lower)]>>
        ELSE <<>>) \o MatchPatterns(message_lower, k + 1)

\* the extractor without its duplicate removal
UniqueBySkillKeepsAll(extracted, seen) == extracted

\* "Remove duplicates": keep an entry unless its lower-cased name was seen
RECURSIVE UniqueBySkill(_, _)
UniqueBySkill(extracted, seen) ==
  IF extracted = <<>> THEN <<>>
  ELSE LET skill_key == Lower(extracted[1].skill)
       IN  IF skill_key \notin seen
           THEN <<extracted[1]>> \o UniqueBySkill(Tail(extracted), seen \cup {skill_key})
           ELSE UniqueBySkill(Tail(extracted), seen)

_extract_skills_fallback(message) ==
  [extracted_skills |-> UniqueBySkill(MatchPatterns(Lower(message), 1), {})]

-----------------------------------------------------------------------------
(* Static skill merge: AIService._create_enhanced_fallback_skill_response   *)

SkillNames(extracted_skills_data) ==
  IF extracted_skills_data = <<>> THEN <<>>
  ELSE [i \in 1..Len(extracted_skills_data) |-> extracted_skills_data[i].skill]

\* current_skills.split(",") stripped, empty entries dropped; [] for a falsy string
CurrentSkillsList(current_skills) ==
  IF current_skills # <<>> THEN StripNonEmpty(Split(current_skills)) ELSE <<>>

\* the loop without seen.add: nothing is ever found in `seen`
UniqueSkillsMissingAdd(all_skills, seen) ==
  SelectSeq(all_skills, LAMBDA x : Lower(x) \notin seen)

\* the loop comparing the skills as written, not lower-cased
RECURSIVE UniqueSkillsCaseSensitive(_, _)
UniqueSkillsCaseSensitive(all_skills, seen) ==
  IF all_skills = <<>> THEN <<>>
  ELSE IF all_skills[1] \notin seen
       THEN <<all_skills[1]>>
            \o UniqueSkillsCaseSensitive(Tail(all_skills), seen \cup {all_skills[1]})
       ELSE UniqueSkillsCaseSensitive(Tail(all_skills), seen)

\* "Remove duplicates while preserving order"

RECURSIVE UniqueSkills(_, _)
UniqueSkills(all_skills, seen) ==
  IF all_skills = <<>> THEN <<>>
  ELSE LET skill_lower == Lower(all_skills[1])
       IN  IF skill_lower \notin seen
           THEN <<all_skills[1]>> \o UniqueSkills(Tail(all_skills), seen \cup {skill_lower})
           ELSE UniqueSkills(Tail(all_skills), seen)

encouraging_responses == <<
  <<"T","h","a","n","k","s"," ","f","o","r"," ","s","h","a","r","i","n","g","!"," ","I","'","m"," ","h","e","r","e"," ","t","o"," ","h","e","l","p"," ","y","o","u"," ","t","r","a","c","k"," ","y","o","u","r"," ","l","e","a","r","n","i","n","g"," ","j","o","u","r","n","e","y","."," ","F","e","e","l"," ","f","r","e","e"," ","t","o"," ","t","e","l","l"," ","m","e"," ","a","b","o","u","t"," ","a","n","y"," ","n","e","w"," ","s","k","i","l","l","s",","," ","t","e","c","h","n","o","l","o","g","i","e","s",","," ","o","r"," ","c","o","u","r","s","e","s"," ","y","o","u","'","v","e"," ","b","e","e","n"," ","w","o","r","k","i","n","g"," ","o","n","!">>,
  <<"I"," ","l","o","v","e"," ","h","e","a","r","i","n","g"," ","a","b","o","u","t"," ","y","o","u","r"," ","p","r","o","g","r","e","s","s","!"," ","W","h","e","t","h","e","r"," ","i","t","'","s"," ","c","o","d","i","n","g",","," ","d","e","s","i","g","n",","," ","o","r"," ","a","n","y"," ","o","t","h","e","r"," ","s","k","i","l","l","s",","," ","I","'","m"," ","h","e","r","e"," ","t","o"," ","h","e","l","p"," ","y","o","u"," ","m","a","p"," ","o","u","t"," ","y","o","u","r"," ","c","a","r","e","e","r"," ","p","a","t","h","."," ","W","h","a","t"," ","w","o","u","l","d"," ","y","o","u"," ","l","i","k","e"," ","t","o"," ","e","x","p","l","o","r","e"," ","n","e","x","t","?">>,
  <<"Y","o","u","r"," ","d","e","d","i","c","a","t","i","o","n"," ","t","o"," ","l","e","a","r","n","i","n","g"," ","i","s"," ","i","n","s","p","i","r","i","n","g","!"," ","K","e","e","p"," ","m","e"," ","u","p","d","a","t","e","d"," ","o","n"," ","a","n","y"," ","n","e","w"," ","t","e","c","h","n","o","l","o","g","i","e","s"," ","o","r"," ","s","k","i","l","l","s"," ","y","o","u"," ","p","i","c","k"," ","u","p"," ","-"," ","I","'","l","l"," ","h","e","l","p"," ","y","o","u"," ","s","e","e"," ","h","o","w"," ","t","h","e","y"," ","f","i","t"," ","i","n","t","o"," ","y","o","u","r"," ","c","a","r","e","e","r"," ","g","r","o","w","t","h","!">>,
  <<"E","v","e","r","y"," ","l","e","a","r","n","i","n","g"," ","s","t","e","p"," ","c","o","u","n","t","s"," ","t","o","w","a","r","d","s"," ","y","o","u","r"," ","g","o","a","l","s","!"," ","F","e","e","l"," ","f","r","e","e"," ","t","o"," ","s","h","a","r","e"," ","a","n","y"," ","c","o","u","r","s","e","s",","," ","t","u","t","o","r","i","a","l","s",","," ","o","r"," ","p","r","o","j","e","c","t","s"," ","y","o","u","'","r","e"," ","w","o","r","k","i","n","g"," ","o","n","."," ","I","'","m"," ","h","e","r","e"," ","t","o"," ","s","u","p","p","o","r","t"," ","y","o","u","r"," ","j","o","u","r","n","e","y","!">> >>

\* the sentence listing every skill with commas only
BotResponseCommaList(extracted_skills, choice) ==
  IF extracted_skills # <<>>
  THEN IF Len(extracted_skills) = 1
       THEN <<"G","r","e","a","t"," ","j","o","b"," ","l","e","a","r","n","i","n","g"," ">> \o extracted_skills[1]
            \o <<"!"," ","T","h","a","t","'","s"," ","a"," ","v","a","l","u","a","b","l","e"," ","s","k","i","l","l"," ","t","h","a","t"," ","w","i","l","l"," ","s","e","r","v","e"," ","y","o","u"," ","w","e","l","l"," ","i","n"," ","y","o","u","r"," ","c","a","r","e","e","r"," ","j","o","u","r","n","e","y","."," ","K","e","e","p"," ","u","p"," ","t","h","e"," ","e","x","c","e","l","l","e","n","t"," ","w","o","r","k","!">>
       ELSE <<"W","o","w",","," ","y","o","u","'","v","e"," ","b","e","e","n"," ","b","u","s","y","!"," ","L","e","a","r","n","i","n","g"," ">> \o Join(extracted_skills, <<","," ">>)
            \o <<" ","s","h","o","w","s"," ","r","e","a","l"," ","d","e","d","i","c","a","t","i","o","n"," ","t","o"," ","y","o","u","r"," ","p","r","o","f","e","s","s","i","o","n","a","l"," ","g","r","o","w","t","h","."," ","T","h","e","s","e"," ","s","k","i","l","l","s"," ","w","i","l","l"," ","d","e","f","i","n","i","t","e","l","y"," ","b","o","o","s","t"," ","y","o","u","r"," ","c","a","r","e","e","r"," ","p","r","o","s","p","e","c","t","s","!">>
  ELSE encouraging_responses[choice]

\* the encouraging sentence; `choice` is the index random.choice picks
BotResponse(extracted_skills, choice) ==
  IF extracted_skills # <<>>
  THEN IF Len(extracted_skills) = 1
       THEN <<"G","r","e","a","t"," ","j","o","b"," ","l","e","a","r","n","i","n","g"," ">> \o extracted_skills[1]
            \o <<"!"," ","T","h","a","t","'","s"," ","a"," ","v","a","l","u","a","b","l","e"," ","s","k","i","l","l"," ","t","h","a","t"," ","w","i","l","l"," ","s","e","r","v","e"," ","y","o","u"," ","w","e","l","l"," ","i","n"," ","y","o","u","r"," ","c","a","r","e","e","r"," ","j","o","u","r","n","e","y","."," ","K","e","e","p"," ","u","p"," ","t","h","e"," ","e","x","c","e","l","l","e","n","t"," ","w","o","r","k","!">>
       ELSE LET skills_text ==
                  Join(SubSeq(extracted_skills, 1, Len(extracted_skills) - 1), <<","," ">>)
                  \o <<" ","a","n","d"," ">> \o extracted_skills[Len(extracted_skills)]
            IN  <<"W","o","w",","," ","y","o","u","'","v","e"," ","b","e","e","n"," ","b","u","s","y","!"," ","L","e","a","r","n","i","n","g"," ">> \o skills_text
                \o <<" ","s","h","o","w","s"," ","r","e","a","l"," ","d","e","d","i","c","a","t","i","o","n"," ","t","o"," ","y","o","u","r"," ","p","r","o","f","e","s","s","i","o","n","a","l"," ","g","r","o","w","t","h","."," ","T","h","e","s","e"," ","s","k","i","l","l","s"," ","w","i","l","l"," ","d","e","f","i","n","i","t","e","l","y"," ","b","o","o","s","t"," ","y","o","u","r"," ","c","a","r","e","e","r"," ","p","r","o","s","p","e","c","t","s","!">>
  ELSE encouraging_responses[choice]

_create_enhanced_fallback_skill_response(message, current_skills, choice) ==
  LET extracted_skills == SkillNames(_extract_skills_fallback(message).extracted_skills)
      all_skills == CurrentSkillsList(current_skills) \o extracted_skills
      unique_skills == UniqueSkills(all_skills, {})
  IN  [extracted_skills |-> extracted_skills,
       updated_skills |-> Join(unique_skills, <<","," ">>),
       bot_response |-> BotResponse(extracted_skills, choice)]

-----------------------------------------------------------------------------
(* Inputs                                                                   *)

NoArgs == [skills |-> <<>>, expertise |-> <<>>, topic |-> <<>>, limit |-> 5,
           message |-> <<>>, current_skills |-> <<>>, current_user |-> FALSE]

NoResult == [kind |-> "none"]

NoResponse == [code |-> 0, body |-> <<>>]

RECURSIVE SeqsUpTo(_, _)
SeqsUpTo(S, n) ==
  IF n = 0 THEN {<<>>}
  ELSE LET T == SeqsUpTo(S, n - 1) IN T \cup {Append(t, x) : t \in T, x \in S}

\* pieces of chat messages; a message concatenates at most MaxFrags of them
MsgFrags == {<<"I"," ","l","e","a","r","n","e","d"," ">>, <<"p","y","t","h","o","n"," ">>, <<"R","e","a","c","t">>, <<"n","o","d","e","j","s"," ","a","n","d"," ","N","o","d","e",".","j","s">>, <<"S","Q","L",","," ">>,
             <<"D","o","c","k","e","r",","," ","G","o"," ">>}

MergeMessages == {Join(fs, <<>>) : fs \in SeqsUpTo(MsgFrags, MaxFrags)}

\* entries of a stored skill string; the string joins at most MaxCur of them with ","
CurItems == {<<"P","y","t","h","o","n">>, <<" ","S","Q","L">>, <<>>, <<"R","E","A","C","T">>}

MergeCurrents == {Join(is, <<",">>) : is \in SeqsUpTo(CurItems, MaxCur)}
_create_frontend_resources(expertise, limit) ==
  LET youtube_courses == <<
      [title |-> "React.js Full Course - freeCodeCamp",
       url |-> "https://www.youtube.com/watch?v=4UZrsTqkcW4"],
      [title |-> "JavaScript Crash Course - Traversy Media",
       url |-> "https://www.youtube.com/watch?v=hdI2bqOjy3c"],
      [title |-> "Advanced React Patterns - Kent C. Dodds",
       url |-> "https://www.youtube.com/playlist?list=PLV5CVI1eNcJgCrPH_e6d57KRUTiDZgs0u"],
      [title |-> "CSS Grid and Flexbox - Wes Bos",
       url |-> "https://www.youtube.com/watch?v=T-slCsOrLcc"],
      [title |-> "Modern JavaScript (ES6+) - The Net Ninja",
       url |-> "https://www.youtube.com/playlist?list=PL4cUxeGkcC9haFPT7J25Q9GRB_ZkFrQAc"],
      [title |-> "Vue.js Complete Course - Academind",
       url |-> "https://www.youtube.com/watch?v=FXpIoQ_rT_c"],
      [title |-> "Web Performance Optimization - Google Developers",
       url |-> "https://www.youtube.com/playlist?list=PLNYkxOF6rcIBGvYSYO-VxOsaYQDw5rifJ"] >>
      articles == <<
      [title |-> "React Best Practices and Patterns",
       url |-> "https://reactjs.org/docs/thinking-in-react.html"],
      [title |-> "Modern JavaScript Features",
       url |-> "https://github.com/tc39/proposals/blob/HEAD/finished-proposals.md"],
      [title |-> "CSS-Tricks Complete Guide to Flexbox",
       url |-> "https://css-tricks.com/snippets/css/a-guide-to-flexbox/"],
      [title |-> "Frontend Performance Checklist",
       url |-> "https://github.com/thedaviddias/Front-End-Performance-Checklist"],
      [title |-> "JavaScript Design Patterns",
       url |-> "https://addyosmani.com/resources/essentialjsdesignpatterns/book/"],
      [title |-> "Web Accessibility Guidelines",
       url |-> "https://webaim.org/standards/wcag/checklist"],
      [title |-> "Progressive Web Apps Guide",
       url |-> "https://web.dev/progressive-web-apps/"] >>
  IN  [youtube_courses |-> Prefix(youtube_courses, limit),
       articles |-> Prefix(articles, limit)]

_create_data_science_resources(expertise, limit) ==
  LET youtube_courses == <<
      [title |-> "Python for Data Science - freeCodeCamp",
       url |-> "https://www.youtube.com/watch?v=LHBE6Q9XlzI"],
      [title |-> "Machine Learning Course - Andrew Ng",
       url |-> "https://www.youtube.com/playlist?list=PLLssT5z_DsK-h9vYZkQkYNWcItqhlRJLN"],
      [title |-> "Data Analysis with Pandas - Corey Schafer",
       url |-> "https://www.youtube.com/playlist?list=PL-osiE80TeTsWmV9i9c58mdDCSskIFdDS"],
      [title |-> "SQL Tutorial - W3Schools",
       url |-> "https://www.youtube.com/watch?v=HXV3zeQKqGY"],
      [title |-> "Deep Learning Specialization - deeplearning.ai",
       url |-> "https://www.youtube.com/channel/UCcIXc5mJsHVYTZR1maL5l9w"],
      [title |-> "Statistics for Data Science - StatQuest",
       url |-> "https://www.youtube.com/channel/UCtYLUTtgS3k1Fg4y5tAhLbw"],
      [title |-> "Tableau Tutorial - Tableau",
       url |-> "https://www.youtube.com/user/tableautraining"] >>
      articles == <<
      [title |-> "Pandas Documentation and Tutorials",
       url |-> "https://pandas.pydata.org/docs/user_guide/index.html"],
      [title |-> "Scikit-learn User Guide",
       url |-> "https://scikit-learn.org/stable/user_guide.html"],
      [title |-> "Data Science Project Ideas",
       url |-> "https://github.com/NirantK/awesome-project-ideas"],
      [title |-> "Machine Learning Yearning",
       url |-> "https://github.com/ajaymache/machine-learning-yearning"],
      [title |-> "Feature Engineering Techniques",
       url |-> "https://towardsdatascience.com/feature-engineering-for-machine-learning-3a5e293a5114"],
      [title |-> "Data Visualization Best Practices",
       url |-> "https://serialmentor.com/dataviz/"],
      [title |-> "SQL Performance Tuning",
       url |-> "https://use-the-index-luke.com/"] >>
  IN  [youtube_courses |-> Prefix(youtube_courses, limit),
       articles |-> Prefix(articles, limit)]

_create_design_resources(expertise, limit) ==
  LET youtube_courses == <<
      [title |-> "UI/UX Design Tutorial - AJ&Smart",
       url |-> "https://www.youtube.com/c/AJSmart"],
      [title |-> "Figma Tutorial - DesignCourse",
       url |-> "https://www.youtube.com/watch?v=3q3FV65ZrUs"],
      [title |-> "Design Systems - Design+Code",
       url |-> "https://www.youtube.com/watch?v=wc5krSTA8ds"],
      [title |-> "Color Theory for Designers - Will Paterson",
       url |-> "https://www.youtube.com/watch?v=AvgCkHrcj90"],
      [title |-> "Typography Fundamentals - Flux",
       url |-> "https://www.youtube.com/watch?v=qaZK9Awi0Nk"],
      [title |-> "User Research Methods - NNGroup",
       url |-> "https://www.youtube.com/user/NNgroup"],
      [title |-> "Accessibility in Design - Google Design",
       url |-> "https://www.youtube.com/playlist?list=PLJ21zHI2TNh_hU6khn7BzJrGfNQA-TCLE"] >>
      articles == <<
      [title |-> "Design Systems Handbook",
       url |-> "https://www.designbetter.co/design-systems-handbook"],
      [title |-> "Material Design Guidelines",
       url |-> "https://material.io/design"],
      [title |-> "Laws of UX",
       url |-> "https://lawsofux.com/"],
      [title |-> "Inclusive Design Principles",
       url |-> "https://inclusivedesignprinciples.org/"],
      [title |-> "Design Pattern Library",
       url |-> "https://ui-patterns.com/patterns"],
      [title |-> "Color Accessibility Guidelines",
       url |-> "https://webaim.org/articles/contrast/"],
      [title |-> "User Research Methods Guide",
       url |-> "https://www.nngroup.com/articles/which-ux-research-methods/"] >>
  IN  [youtube_courses |-> Prefix(youtube_courses, limit),
       articles |-> Prefix(articles, limit)]

_create_marketing_resources(expertise, limit) ==
  LET youtube_courses == <<
      [title |-> "Digital Marketing Course - Google Digital Garage",
       url |-> "https://www.youtube.com/watch?v=bixR-KIJKYM"],
      [title |-> "SEO Tutorial - Moz",
       url |-> "https://www.youtube.com/user/MozHQ"],
      [title |-> "Social Media Marketing - HubSpot",
       url |-> "https://www.youtube.com/user/HubSpot"],
      [title |-> "Content Marketing - Neil Patel",
       url |-> "https://www.youtube.com/user/neilvkpatel"],
      [title |-> "Email Marketing - Mailchimp",
       url |-> "https://www.youtube.com/user/MailChimp"],
      [title |-> "Google Analytics - Google Analytics",
       url |-> "https://www.youtube.com/user/googleanalytics"],
      [title |-> "Growth Hacking - GrowthHackers",
       url |-> "https://www.youtube.com/channel/UCN20PbGdCq3fQ8pP_PoFGRw"] >>
      articles == <<
      [title |-> "HubSpot Marketing Hub",
       url |-> "https://blog.hubspot.com/marketing"],
      [title |-> "Moz SEO Learning Center",
       url |-> "https://moz.com/learn/seo"],
      [title |-> "Content Marketing Institute",
       url |-> "https://contentmarketinginstitute.com/"],
      [title |-> "Social Media Examiner",
       url |-> "https://www.socialmediaexaminer.com/"],
      [title |-> "Google Ads Help Center",
       url |-> "https://support.google.com/google-ads"],
      [title |-> "Facebook Business Help Center",
       url |-> "https://www.facebook.com/business/help"],
      [title |-> "Marketing Land",
       url |-> "https://marketingland.com/"] >>
  IN  [youtube_courses |-> Prefix(youtube_courses, limit),
       articles |-> Prefix(articles, limit)]

_create_management_resources(expertise, limit) ==
  LET youtube_courses == <<
      [title |-> "Project Management Fundamentals - PMI",
       url |-> "https://www.youtube.com/user/PMInstitute"],
      [title |-> "Agile and Scrum Tutorial - Simplilearn",
       url |-> "https://www.youtube.com/watch?v=9TycLR0TqFA"],
      [title |-> "Leadership Skills - Harvard Business Review",
       url |-> "https://www.youtube.com/user/HarvardBusiness"],
      [title |-> "Team Management - Brian Tracy",
       url |-> "https://www.youtube.com/user/BrianTracySpeaker"],
      [title |-> "Product Management - Product School",
       url |-> "https://www.youtube.com/channel/UC6hlQ0x6kPbAGjYkoz53cvA"],
      [title |-> "Kanban Tutorial - Kanbanize",
       url |-> "https://www.youtube.com/user/KanbanizeTV"],
      [title |-> "Remote Team Management - Buffer",
       url |-> "https://www.youtube.com/c/bufferapp"] >>
      articles == <<
      [title |-> "Project Management Institute Guide",
       url |-> "https://www.pmi.org/learning/library"],
      [title |-> "Agile Alliance Resources",
       url |-> "https://www.agilealliance.org/agile101/"],
      [title |-> "Scrum Guide Official",
       url |-> "https://scrumguides.org/scrum-guide.html"],
      [title |-> "Product Management Resources",
       url |-> "https://www.productplan.com/learn/"],
      [title |-> "Leadership Best Practices",
       url |-> "https://hbr.org/topic/leadership"],
      [title |-> "Remote Work Best Practices",
       url |-> "https://blog.trello.com/remote-work-team-management-tips"],
      [title |-> "Team Building Strategies",
       url |-> "https://www.atlassian.com/team-playbook"] >>
  IN  [youtube_courses |-> Prefix(youtube_courses, limit),
       articles |-> Prefix(articles, limit)]

_create_general_tech_resources(expertise, limit) ==
  LET youtube_courses == <<
      [title |-> "Computer Science Fundamentals - CS50 Harvard",
       url |-> "https://www.youtube.com/user/cs50tv"],
      [title |-> "Software Engineering - MIT OpenCourseWare",
       url |-> "https://www.youtube.com/user/MIT"],
      [title |-> "Cloud Computing - AWS",
       url |-> "https://www.youtube.com/user/AmazonWebServices"],
      [title |-> "Cybersecurity Fundamentals - SANS",
       url |-> "https://www.youtube.com/user/SANSInstitute"],
      [title |-> "DevOps Tutorial - TechWorld with Nana",
       url |-> "https://www.youtube.com/c/TechWorldwithNana"],
      [title |-> "Algorithms and Data Structures - MIT",
       url |-> "https://www.youtube.com/playlist?list=PLUl4u3cNGP61Oq3tWYp6V_F-5jb5L2iHb"],
      [title |-> "Tech Career Advice - TechLead",
       url |-> "https://www.youtube.com/c/TechLead"] >>
      articles == <<
      [title |-> "Free Programming Books",
       url |-> "https://github.com/EbookFoundation/free-programming-books"],
      [title |-> "System Design Interview",
       url |-> "https://github.com/donnemartin/system-design-primer"],
      [title |-> "Tech Interview Handbook",
       url |-> "https://github.com/yangshun/tech-interview-handbook"],
      [title |-> "Awesome Lists Collection",
       url |-> "https://github.com/sindresorhus/awesome"],
      [title |-> "DevOps Roadmap",
       url |-> "https://roadmap.sh/devops"],
      [title |-> "Cloud Computing Guide",
       url |-> "https://aws.amazon.com/getting-started/"],
      [title |-> "Open Source Contribution Guide",
       url |-> "https://opensource.guide/"] >>
  IN  [youtube_courses |-> Prefix(youtube_courses, limit),
       articles |-> Prefix(articles, limit)]

programming_youtube_courses == <<
      [title |-> "Python Full Course for Beginners - Programming with Mosh",
       url |-> "https://www.youtube.com/watch?v=_uQrJ0TkZlc"],
      [title |-> "Complete Python Tutorial - Tech With Tim",
       url |-> "https://www.youtube.com/watch?v=sxTmJE4k0ho"],
      [title |-> "Advanced Python - Corey Schafer",
       url |-> "https://www.youtube.com/playlist?list=PL-osiE80TeTt2d9bfVyTiXJA-UTHn6WwU"],
      [title |-> "Software Engineering Principles - MIT OpenCourseWare",
       url |-> "https://www.youtube.com/playlist?list=PLUl4u3cNGP63WbdFxL8giv4yhgdMGaZNA"],
      [title |-> "System Design Interview - Gaurav Sen",
       url |-> "https://www.youtube.com/playlist?list=PLMCXHnjXnTnvo6alSjVkgxV-VH6EPyvoX"],
      [title |-> "Clean Code - Uncle Bob",
       url |-> "https://www.youtube.com/watch?v=7EmboKQH8lM"],
      [title |-> "Git and GitHub Tutorial - Traversy Media",
       url |-> "https://www.youtube.com/watch?v=SWYqp7iY_Tc"] >>

programming_articles == <<
      [title |-> "Python Best Practices and Tips",
       url |-> "https://realpython.com/python-best-practices/"],
      [title |-> "Clean Code Principles in Python",
       url |-> "https://medium.com/swlh/clean-code-in-python-78a8b4f3e4f9"],
      [title |-> "System Design Primer",
       url |-> "https://github.com/donnemartin/system-design-primer"],
      [title |-> "Python Design Patterns",
       url |-> "https://refactoring.guru/design-patterns/python"],
      [title |-> "Software Engineering Best Practices",
       url |-> "https://github.com/microsoft/code-with-engineering-playbook"],
      [title |-> "Python Performance Tips",
       url |-> "https://wiki.python.org/moin/PythonSpeed/PerformanceTips"],
      [title |-> "Code Review Best Practices",
       url |-> "https://smartbear.com/learn/code-review/best-practices-for-peer-code-review/"] >>

\* the characters of a programming resource title, for the keyword filters
TitleChars(title) ==
  CASE title = "Python Full Course for Beginners - Programming with Mosh" ->
         <<"P","y","t","h","o","n"," ","F","u","l","l"," ","C","o","u","r","s","e"," ","f","o","r"," ","B","e","g","i","n","n","e","r","s"," ","-"," ","P","r","o","g","r","a","m","m","i","n","g"," ","w","i","t","h"," ","M","o","s","h">>
    [] title = "Complete Python Tutorial - Tech With Tim" ->
         <<"C","o","m","p","l","e","t","e"," ","P","y","t","h","o","n"," ","T","u","t","o","r","i","a","l"," ","-"," ","T","e","c","h"," ","W","i","t","h"," ","T","i","m">>
    [] title = "Advanced Python - Corey Schafer" ->
         <<"A","d","v","a","n","c","e","d"," ","P","y","t","h","o","n"," ","-"," ","C","o","r","e","y"," ","S","c","h","a","f","e","r">>
    [] title = "Software Engineering Principles - MIT OpenCourseWare" ->
         <<"S","o","f","t","w","a","r","e"," ","E","n","g","i","n","e","e","r","i","n","g"," ","P","r","i","n","c","i","p","l","e","s"," ","-"," ","M","I","T"," ","O","p","e","n","C","o","u","r","s","e","W","a","r","e">>
    [] title = "System Design Interview - Gaurav Sen" ->
         <<"S","y","s","t","e","m"," ","D","e","s","i","g","n"," ","I","n","t","e","r","v","i","e","w"," ","-"," ","G","a","u","r","a","v"," ","S","e","n">>
    [] title = "Clean Code - Uncle Bob" ->
         <<"C","l","e","a","n"," ","C","o","d","e"," ","-"," ","U","n","c","l","e"," ","B","o","b">>
    [] title = "Git and GitHub Tutorial - Traversy Media" ->
         <<"G","i","t"," ","a","n","d"," ","G","i","t","H","u","b"," ","T","u","t","o","r","i","a","l"," ","-"," ","T","r","a","v","e","r","s","y"," ","M","e","d","i","a">>
    [] title = "Python Best Practices and Tips" ->
         <<"P","y","t","h","o","n"," ","B","e","s","t"," ","P","r","a","c","t","i","c","e","s"," ","a","n","d"," ","T","i","p","s">>
    [] title = "Clean Code Principles in Python" ->
         <<"C","l","e","a","n"," ","C","o","d","e"," ","P","r","i","n","c","i","p","l","e","s"," ","i","n"," ","P","y","t","h","o","n">>
    [] title = "System Design Primer" ->
         <<"S","y","s","t","e","m"," ","D","e","s","i","g","n"," ","P","r","i","m","e","r">>
    [] title = "Python Design Patterns" ->
         <<"P","y","t","h","o","n"," ","D","e","s","i","g","n"," ","P","a","t","t","e","r","n","s">>
    [] title = "Software Engineering Best Practices" ->
         <<"S","o","f","t","w","a","r","e"," ","E","n","g","i","n","e","e","r","i","n","g"," ","B","e","s","t"," ","P","r","a","c","t","i","c","e","s">>
    [] title = "Python Performance Tips" ->
         <<"P","y","t","h","o","n"," ","P","e","r","f","o","r","m","a","n","c","e"," ","T","i","p","s">>
    [] title = "Code Review Best Practices" ->
         <<"C","o","d","e"," ","R","e","v","i","e","w"," ","B","e","s","t"," ","P","r","a","c","t","i","c","e","s">>

_create_python_test_questions(expertise) ==
  IF InList(Lower(expertise), <<<<"a","d","v","a","n","c","e","d">>, <<"e","x","p","e","r","t">>>>)
  THEN <<
      [question |-> "What is the difference between __str__ and __repr__ methods in Python classes?",
       answer |-> "__str__ is meant to be readable and is called by str() and print(). __repr__ is meant to be unambiguous and is called by repr(). __repr__ should ideally return a string that could recreate the object."],
      [question |-> "Explain Python's Global Interpreter Lock (GIL) and its impact on multithreading.",
       answer |-> "The GIL prevents multiple native threads from executing Python bytecodes simultaneously. This means CPU-bound programs won't benefit from multithreading, but I/O-bound programs can still benefit. Use multiprocessing for CPU-bound tasks."],
      [question |-> "What are Python decorators and how do they work internally?",
       answer |-> "Decorators are functions that modify other functions. They use closure to wrap the original function. @decorator is syntactic sugar for func = decorator(func). They're useful for logging, authentication, caching, etc."],
      [question |-> "Explain the difference between deep copy and shallow copy in Python.",
       answer |-> "Shallow copy creates a new object but inserts references to objects in the original. Deep copy creates new objects recursively. Use copy.copy() for shallow and copy.deepcopy() for deep copying."],
      [question |-> "How does Python's memory management work?",
       answer |-> "Python uses reference counting plus cycle detection for garbage collection. Objects are deleted when reference count reaches zero. Cycle detector handles circular references that reference counting can't resolve."] >>
  ELSE <<
      [question |-> "What is the difference between a list and a tuple in Python?",
       answer |-> "Lists are mutable (can be changed) and use square brackets []. Tuples are immutable (cannot be changed) and use parentheses (). Lists are better for data that changes, tuples for fixed data."],
      [question |-> "How do you handle exceptions in Python?",
       answer |-> "Use try-except blocks. Put risky code in 'try', handle errors in 'except'. You can catch specific exceptions or use 'except Exception' for general errors. Always include meaningful error messages."],
      [question |-> "What is a Python function and how do you define one?",
       answer |-> "A function is a reusable block of code. Define with 'def function_name(parameters):' followed by indented code. Functions can return values using 'return' and accept parameters to work with different data."],
      [question |-> "Explain Python dictionaries and their use cases.",
       answer |-> "Dictionaries store key-value pairs using curly braces {}. Keys must be unique and immutable. They're perfect for mapping relationships, caching, and when you need fast lookups by key."],
      [question |-> "What are Python loops and when would you use each type?",
       answer |-> "'for' loops iterate over sequences (lists, strings, ranges). 'while' loops continue until a condition is false. Use 'for' when you know the iterations, 'while' for conditional repetition."] >>

_create_javascript_test_questions(expertise) ==
  IF InList(Lower(expertise), <<<<"a","d","v","a","n","c","e","d">>, <<"e","x","p","e","r","t">>>>)
  THEN <<
      [question |-> "Explain JavaScript's event loop and how asynchronous operations work.",
       answer |-> "The event loop handles async operations by moving callbacks to a queue when async operations complete. It continuously checks if the call stack is empty, then processes queued callbacks. This enables non-blocking I/O."],
      [question |-> "What is closure in JavaScript and provide a practical example.",
       answer |-> "Closure is when an inner function has access to outer function's variables even after the outer function returns. Example: function outer(x) { return function(y) { return x + y; }; } - the inner function 'closes over' x."],
      [question |-> "Explain the difference between 'this' in regular functions vs arrow functions.",
       answer |-> "Regular functions have dynamic 'this' based on how they're called. Arrow functions inherit 'this' from enclosing scope (lexical this). Arrow functions can't be used as constructors and don't have their own 'this'."],
      [question |-> "What are JavaScript Promises and how do they handle async operations?",
       answer |-> "Promises represent eventual completion of async operations. They have three states: pending, fulfilled, rejected. Use .then() for success, .catch() for errors, .finally() for cleanup. Better than callbacks for avoiding callback hell."],
      [question |-> "Explain prototype inheritance in JavaScript.",
       answer |-> "Every object has a prototype chain. When accessing a property, JS looks up the chain until found. Objects inherit from Object.prototype by default. Use Object.create() or class syntax for inheritance."] >>
  ELSE <<
      [question |-> "What is the difference between 'let', 'const', and 'var' in JavaScript?",
       answer |-> "'var' is function-scoped and hoisted. 'let' and 'const' are block-scoped. 'const' cannot be reassigned after declaration. Use 'const' by default, 'let' when you need to reassign, avoid 'var'."],
      [question |-> "How do you create and manipulate arrays in JavaScript?",
       answer |-> "Create arrays with [] or new Array(). Common methods: push() adds to end, pop() removes from end, shift()/unshift() for beginning, slice() for copying portions, splice() for adding/removing elements."],
      [question |-> "What are JavaScript functions and different ways to declare them?",
       answer |-> "Functions are reusable code blocks. Declare with: function name() {}, const name = function() {}, const name = () => {}. Arrow functions are shorter and don't have their own 'this'."],
      [question |-> "How do you work with objects in JavaScript?",
       answer |-> "Objects store key-value pairs. Create with {} or new Object(). Access properties with dot notation (obj.key) or brackets (obj['key']). Add/modify properties by assignment."],
      [question |-> "What is DOM manipulation and how do you select elements?",
       answer |-> "DOM manipulation changes HTML elements with JavaScript. Select elements using document.getElementById(), querySelector(), getElementsByClassName(). Modify with innerHTML, textContent, style properties."] >>

_create_data_science_test_questions(expertise) ==
  <<
      [question |-> "What is the difference between supervised and unsupervised learning?",
       answer |-> "Supervised learning uses labeled data to train models for prediction (classification/regression). Unsupervised learning finds patterns in unlabeled data (clustering, dimensionality reduction)."],
      [question |-> "Explain what SQL JOINs are and when to use different types.",
       answer |-> "JOINs combine data from multiple tables. INNER JOIN returns matching records. LEFT JOIN returns all left table records plus matches. RIGHT JOIN returns all right table records plus matches. FULL JOIN returns all records."],
      [question |-> "What is data normalization and why is it important?",
       answer |-> "Data normalization scales features to similar ranges (0-1 or standard normal). It's important because algorithms like neural networks and k-means are sensitive to feature scales, and it improves convergence and performance."],
      [question |-> "Explain the bias-variance tradeoff in machine learning.",
       answer |-> "Bias is error from oversimplifying assumptions. Variance is error from model sensitivity to training data. High bias = underfitting, high variance = overfitting. Goal is finding optimal balance for best generalization."],
      [question |-> "What are some common data visualization best practices?",
       answer |-> "Choose appropriate chart types for data. Use clear labels and titles. Avoid 3D charts and pie charts with many categories. Ensure accessibility with colorblind-friendly palettes. Start y-axis at zero for bar charts."] >>

_create_design_test_questions(expertise) ==
  <<
      [question |-> "What are the key principles of good user interface design?",
       answer |-> "Key principles include: consistency, clarity, efficiency, forgiveness (easy to undo), accessibility, user control, and feedback. Focus on user needs, maintain visual hierarchy, and reduce cognitive load."],
      [question |-> "Explain the difference between UX and UI design.",
       answer |-> "UX (User Experience) focuses on overall user journey, research, and problem-solving. UI (User Interface) focuses on visual design, layouts, and interactions. UX is strategy, UI is implementation."],
      [question |-> "What is color theory and how does it apply to digital design?",
       answer |-> "Color theory studies how colors interact. Use complementary colors for contrast, analogous for harmony. Consider color psychology and accessibility. Maintain sufficient contrast ratios (4.5:1 for normal text)."],
      [question |-> "What is typography and what makes good typography in digital interfaces?",
       answer |-> "Typography is the art of arranging text. Good digital typography uses readable fonts, appropriate sizes (16px+ for body), proper line spacing (1.4-1.6), adequate contrast, and hierarchy through size and weight."],
      [question |-> "Explain responsive design principles.",
       answer |-> "Responsive design adapts to different screen sizes. Use flexible grids, scalable images, and CSS media queries. Follow mobile-first approach, design for touch interfaces, and ensure content remains accessible across devices."] >>

_create_general_tech_test_questions(expertise) ==
  <<
      [question |-> "What is version control and why is it important in software development?",
       answer |-> "Version control tracks changes to code over time. It enables collaboration, backup, branching for features, and rollback to previous versions. Git is the most popular system, enabling distributed development."],
      [question |-> "Explain the difference between frontend and backend development.",
       answer |-> "Frontend handles user interface and user experience (HTML, CSS, JavaScript). Backend handles server logic, databases, and APIs (Python, Java, Node.js). They communicate through APIs to create complete applications."],
      [question |-> "What is an API and how do RESTful APIs work?",
       answer |-> "API (Application Programming Interface) allows applications to communicate. REST uses HTTP methods (GET, POST, PUT, DELETE) with stateless requests. Returns data in JSON format with proper status codes."],
      [question |-> "What are the key principles of good software architecture?",
       answer |-> "Key principles include: modularity, separation of concerns, loose coupling, high cohesion, scalability, maintainability, and following design patterns. Good architecture makes code easier to understand, test, and modify."],
      [question |-> "Explain the importance of testing in software development.",
       answer |-> "Testing ensures code works correctly and prevents bugs. Types include unit tests (individual functions), integration tests (component interaction), and end-to-end tests (full user workflows). Automated testing saves time and improves reliability."] >>

software_development_analysis ==
    [career_paths |-> <<
       [title |-> "Software Engineer",
        description |-> "Design and develop software applications, systems, and solutions.",
        required_skills |-> <<"Programming Languages", "Problem Solving", "Software Architecture", "Testing">>,
        salary_range |-> "$70,000 - $150,000",
        growth_prospect |-> "High - Software engineering continues to be in high demand across all industries."],
       [title |-> "Full Stack Developer",
        description |-> "Work on both frontend and backend development of web applications.",
        required_skills |-> <<"JavaScript", "React/Vue", "Node.js", "Databases", "APIs">>,
        salary_range |-> "$65,000 - $130,000",
        growth_prospect |-> "High - Full stack developers are versatile and highly sought after."],
       [title |-> "DevOps Engineer",
        description |-> "Bridge development and operations, focusing on automation and deployment.",
        required_skills |-> <<"Cloud Platforms", "CI/CD", "Docker", "Kubernetes", "Infrastructure as Code">>,
        salary_range |-> "$80,000 - $160,000",
        growth_prospect |-> "Very High - DevOps practices are essential for modern software delivery."] >>,
     selected_path |->
       [title |-> "Software Engineer",
        description |-> "Based on your programming skills, software engineering offers the best growth opportunities and aligns with current market demand.",
        required_skills |-> <<"Programming Languages", "Problem Solving", "Software Architecture", "Testing">>,
        salary_range |-> "$70,000 - $150,000",
        growth_prospect |-> "High - Software engineering continues to be in high demand across all industries."],
     roadmap |-> <<
       [step |-> 1,
        title |-> "Master Programming Fundamentals",
        description |-> "Strengthen your foundation in programming languages, data structures, and algorithms.",
        duration |-> "2-3 months",
        resources |-> <<"LeetCode", "HackerRank", "Coursera algorithms courses">>],
       [step |-> 2,
        title |-> "Build Projects",
        description |-> "Create 3-5 substantial projects demonstrating different skills and technologies.",
        duration |-> "3-4 months",
        resources |-> <<"GitHub", "Personal portfolio website", "Open source contributions">>],
       [step |-> 3,
        title |-> "Learn System Design",
        description |-> "Understand how to design scalable systems and software architecture.",
        duration |-> "2-3 months",
        resources |-> <<"System Design Primer", "High Scalability blog", "AWS Architecture Center">>],
       [step |-> 4,
        title |-> "Practice Technical Interviews",
        description |-> "Prepare for coding interviews and technical discussions.",
        duration |-> "1-2 months",
        resources |-> <<"Cracking the Coding Interview", "Mock interviews", "Interview practice platforms">>],
       [step |-> 5,
        title |-> "Apply and Network",
        description |-> "Start applying to positions and building professional networks.",
        duration |-> "Ongoing",
        resources |-> <<"LinkedIn", "Tech meetups", "Job boards", "Company career pages">>] >>,
     courses |-> <<
       [title |-> "Complete Web Development Bootcamp",
        provider |-> "Udemy",
        duration |-> "65 hours",
        difficulty |-> "Beginner",
        url |-> "https://www.udemy.com/course/the-complete-web-development-bootcamp/"],
       [title |-> "Algorithms Specialization",
        provider |-> "Coursera (Stanford)",
        duration |-> "4 months",
        difficulty |-> "Intermediate",
        url |-> "https://www.coursera.org/specializations/algorithms"],
       [title |-> "System Design Interview",
        provider |-> "Educative",
        duration |-> "3-4 weeks",
        difficulty |-> "Advanced",
        url |-> "https://www.educative.io/courses/grokking-the-system-design-interview"] >>]

data_science_analysis ==
    [career_paths |-> <<
       [title |-> "Data Scientist",
        description |-> "Analyze complex data to drive business decisions and insights.",
        required_skills |-> <<"Python/R", "Statistics", "Machine Learning", "Data Visualization">>,
        salary_range |-> "$80,000 - $160,000",
        growth_prospect |-> "Very High - Data science is one of the fastest growing fields."],
       [title |-> "Data Analyst",
        description |-> "Collect, process, and analyze data to support business decisions.",
        required_skills |-> <<"SQL", "Excel", "Tableau/PowerBI", "Statistics">>,
        salary_range |-> "$55,000 - $95,000",
        growth_prospect |-> "High - Every organization needs data analysts."],
       [title |-> "Machine Learning Engineer",
        description |-> "Design and implement ML systems and algorithms in production.",
        required_skills |-> <<"Python", "TensorFlow/PyTorch", "MLOps", "Cloud Platforms">>,
        salary_range |-> "$90,000 - $180,000",
        growth_prospect |-> "Very High - AI/ML adoption is accelerating across industries."] >>,
     selected_path |->
       [title |-> "Data Scientist",
        description |-> "Perfect blend of statistics, programming, and business acumen to extract insights from data.",
        required_skills |-> <<"Python/R", "Statistics", "Machine Learning", "Data Visualization">>,
        salary_range |-> "$80,000 - $160,000",
        growth_prospect |-> "Very High - Data science is one of the fastest growing fields."],
     roadmap |-> <<
       [step |-> 1,
        title |-> "Master Python for Data Science",
        description |-> "Learn Python, pandas, numpy, and data manipulation techniques.",
        duration |-> "2-3 months",
        resources |-> <<"Python for Data Analysis book", "Kaggle Learn", "DataCamp">>],
       [step |-> 2,
        title |-> "Learn Statistics and Math",
        description |-> "Build strong foundation in statistics, probability, and linear algebra.",
        duration |-> "2-3 months",
        resources |-> <<"Khan Academy", "Coursera Statistics courses", "Think Stats book">>],
       [step |-> 3,
        title |-> "Machine Learning Fundamentals",
        description |-> "Understand supervised and unsupervised learning algorithms.",
        duration |-> "3-4 months",
        resources |-> <<"Scikit-learn documentation", "Andrew Ng's ML Course", "Hands-On ML book">>],
       [step |-> 4,
        title |-> "Data Visualization and Communication",
        description |-> "Learn to create compelling visualizations and communicate findings.",
        duration |-> "1-2 months",
        resources |-> <<"Matplotlib/Seaborn", "Tableau", "Storytelling with Data book">>],
       [step |-> 5,
        title |-> "Build Portfolio Projects",
        description |-> "Complete end-to-end data science projects for your portfolio.",
        duration |-> "3-4 months",
        resources |-> <<"Kaggle competitions", "GitHub", "Personal blog", "Public datasets">>] >>,
     courses |-> <<
       [title |-> "Machine Learning Course",
        provider |-> "Coursera (Stanford)",
        duration |-> "11 weeks",
        difficulty |-> "Intermediate",
        url |-> "https://www.coursera.org/learn/machine-learning"],
       [title |-> "Python for Data Science and AI",
        provider |-> "IBM (Coursera)",
        duration |-> "5 weeks",
        difficulty |-> "Beginner",
        url |-> "https://www.coursera.org/learn/python-for-applied-data-science-ai"],
       [title |-> "Advanced Data Science Specialization",
        provider |-> "Johns Hopkins (Coursera)",
        duration |-> "4 months",
        difficulty |-> "Advanced",
        url |-> "https://www.coursera.org/specializations/advanced-data-science-ibm"] >>]

default_analysis ==
    [career_paths |-> <<
       [title |-> "Technology Professional",
        description |-> "Leverage technology skills to solve problems and drive innovation.",
        required_skills |-> <<"Technical Skills", "Problem Solving", "Communication", "Continuous Learning">>,
        salary_range |-> "$50,000 - $120,000",
        growth_prospect |-> "High - Technology skills are increasingly valuable across all industries."],
       [title |-> "Digital Specialist",
        description |-> "Apply digital tools and technologies to improve business processes.",
        required_skills |-> <<"Digital Literacy", "Process Improvement", "Data Analysis", "Project Management">>,
        salary_range |-> "$45,000 - $90,000",
        growth_prospect |-> "High - Digital transformation is a priority for most organizations."],
       [title |-> "Technical Consultant",
        description |-> "Provide expert advice and solutions for technology challenges.",
        required_skills |-> <<"Domain Expertise", "Communication", "Problem Solving", "Client Management">>,
        salary_range |-> "$60,000 - $140,000",
        growth_prospect |-> "High - Organizations need specialized expertise for technology adoption."] >>,
     selected_path |->
       [title |-> "Technology Professional",
        description |-> "A versatile role that allows you to grow your technical skills while contributing to meaningful projects.",
        required_skills |-> <<"Technical Skills", "Problem Solving", "Communication", "Continuous Learning">>,
        salary_range |-> "$50,000 - $120,000",
        growth_prospect |-> "High - Technology skills are increasingly valuable across all industries."],
     roadmap |-> <<
       [step |-> 1,
        title |-> "Strengthen Core Skills",
        description |-> "Focus on building strong technical foundations in your area of interest.",
        duration |-> "2-3 months",
        resources |-> <<"Online courses", "Practice projects", "Documentation">>],
       [step |-> 2,
        title |-> "Gain Practical Experience",
        description |-> "Apply your skills through projects, internships, or volunteer work.",
        duration |-> "3-6 months",
        resources |-> <<"GitHub projects", "Freelance platforms", "Open source contributions">>],
       [step |-> 3,
        title |-> "Build Professional Network",
        description |-> "Connect with professionals in your field and learn from their experiences.",
        duration |-> "Ongoing",
        resources |-> <<"LinkedIn", "Professional meetups", "Industry conferences">>],
       [step |-> 4,
        title |-> "Develop Specialization",
        description |-> "Choose a specific area to specialize in and become an expert.",
        duration |-> "6-12 months",
        resources |-> <<"Advanced courses", "Certifications", "Industry publications">>],
       [step |-> 5,
        title |-> "Seek Growth Opportunities",
        description |-> "Look for positions that challenge you and offer career advancement.",
        duration |-> "Ongoing",
        resources |-> <<"Job boards", "Career fairs", "Professional referrals">>] >>,
     courses |-> <<
       [title |-> "Technology Fundamentals",
        provider |-> "Coursera",
        duration |-> "4-6 weeks",
        difficulty |-> "Beginner",
        url |-> "https://www.coursera.org/courses?query=technology%20fundamentals"],
       [title |-> "Project Management Professional",
        provider |-> "PMI",
        duration |-> "3-6 months",
        difficulty |-> "Intermediate",
        url |-> "https://www.pmi.org/certifications/project-management-pmp"],
       [title |-> "Digital Transformation",
        provider |-> "MIT xPRO",
        duration |-> "8 weeks",
        difficulty |-> "Advanced",
        url |-> "https://xpro.mit.edu/courses/course-v1:xPRO+DTx+2024"] >>]
-----------------------------------------------------------------------------
(* Static learning resources                                                *)

\* [c for c in entries if any(word in c['title'].lower() for word in words)]
FilterByTitle(entries, words) ==
  SelectSeq(entries, LAMBDA c : AnyIn(words, Lower(TitleChars(c.title))))

_create_programming_resources(expertise, limit) ==
  LET beginner == InList(Lower(expertise), <<<<"b","e","g","i","n","n","e","r">>, <<"e","n","t","r","y">>>>)
      advanced == InList(Lower(expertise), <<<<"a","d","v","a","n","c","e","d">>, <<"e","x","p","e","r","t">>>>)
      youtube_courses ==
        IF beginner
        THEN FilterByTitle(programming_youtube_courses,
                           <<<<"b","e","g","i","n","n","e","r">>, <<"f","u","l","l"," ","c","o","u","r","s","e">>, <<"t","u","t","o","r","i","a","l">>, <<"c","o","m","p","l","e","t","e">>>>)
        ELSE IF advanced
        THEN FilterByTitle(programming_youtube_courses,
                           <<<<"a","d","v","a","n","c","e","d">>, <<"s","y","s","t","e","m"," ","d","e","s","i","g","n">>, <<"c","l","e","a","n"," ","c","o","d","e">>, <<"e","n","g","i","n","e","e","r","i","n","g">>>>)
        ELSE programming_youtube_courses
      articles ==
        IF beginner
        THEN FilterByTitle(programming_articles,
                           <<<<"t","i","p","s">>, <<"b","e","s","t"," ","p","r","a","c","t","i","c","e","s">>, <<"p","r","i","m","e","r">>>>)
        ELSE IF advanced
        THEN FilterByTitle(programming_articles,
                           <<<<"d","e","s","i","g","n"," ","p","a","t","t","e","r","n","s">>, <<"p","e","r","f","o","r","m","a","n","c","e">>, <<"e","n","g","i","n","e","e","r","i","n","g">>, <<"a","d","v","a","n","c","e","d">>>>)
        ELSE programming_articles
  IN  [youtube_courses |-> Prefix(youtube_courses, limit),
       articles |-> Prefix(articles, limit)]

\* the topic argument is accepted and never read
_create_enhanced_fallback_resources(skills, expertise, limit, topic) ==
  LET skills_lower == Lower(skills)
  IN  IF AnyIn(<<<<"p","y","t","h","o","n">>, <<"p","r","o","g","r","a","m","m","i","n","g">>, <<"c","o","d","i","n","g">>, <<"s","o","f","t","w","a","r","e">>>>, skills_lower)
      THEN _create_programming_resources(expertise, limit)
      ELSE IF AnyIn(<<<<"j","a","v","a","s","c","r","i","p","t">>, <<"j","s">>, <<"r","e","a","c","t">>, <<"f","r","o","n","t","e","n","d">>, <<"w","e","b">>>>, skills_lower)
      THEN _create_frontend_resources(expertise, limit)
      ELSE IF AnyIn(<<<<"d","a","t","a">>, <<"a","n","a","l","y","t","i","c","s">>, <<"s","q","l">>, <<"m","a","c","h","i","n","e"," ","l","e","a","r","n","i","n","g">>, <<"a","i">>>>, skills_lower)
      THEN _create_data_science_resources(expertise, limit)
      ELSE IF AnyIn(<<<<"d","e","s","i","g","n">>, <<"u","i">>, <<"u","x">>, <<"f","i","g","m","a">>>>, skills_lower)
      THEN _create_design_resources(expertise, limit)
      ELSE IF AnyIn(<<<<"m","a","r","k","e","t","i","n","g">>, <<"s","o","c","i","a","l"," ","m","e","d","i","a">>, <<"s","e","o">>, <<"c","o","n","t","e","n","t">>>>, skills_lower)
      THEN _create_marketing_resources(expertise, limit)
      ELSE IF AnyIn(<<<<"p","r","o","j","e","c","t"," ","m","a","n","a","g","e","m","e","n","t">>, <<"a","g","i","l","e">>, <<"s","c","r","u","m">>, <<"l","e","a","d","e","r","s","h","i","p">>>>, skills_lower)
      THEN _create_management_resources(expertise, limit)
      ELSE _create_general_tech_resources(expertise, limit)

-----------------------------------------------------------------------------
(* Static mock test                                                         *)

\* topic None and topic "" are both falsy and read as ""
_create_enhanced_fallback_test(skills, expertise, topic) ==
  LET skills_lower == Lower(skills)
      topic_lower == Lower(topic)
  IN  IF AnyIn(<<<<"p","y","t","h","o","n">>, <<"p","r","o","g","r","a","m","m","i","n","g">>>>, skills_lower)
         \/ Contains(<<"p","y","t","h","o","n">>, topic_lower)
      THEN _create_python_test_questions(expertise)
      ELSE IF AnyIn(<<<<"j","a","v","a","s","c","r","i","p","t">>, <<"j","s">>, <<"r","e","a","c","t">>, <<"f","r","o","n","t","e","n","d">>>>, skills_lower)
              \/ Contains(<<"j","a","v","a","s","c","r","i","p","t">>, topic_lower)
      THEN _create_javascript_test_questions(expertise)
      ELSE IF AnyIn(<<<<"d","a","t","a">>, <<"a","n","a","l","y","t","i","c","s">>, <<"s","q","l">>, <<"d","a","t","a","b","a","s","e">>>>, skills_lower)
              \/ Contains(<<"d","a","t","a">>, topic_lower)
      THEN _create_data_science_test_questions(expertise)
      ELSE IF AnyIn(<<<<"d","e","s","i","g","n">>, <<"u","i">>, <<"u","x">>>>, skills_lower)
              \/ Contains(<<"d","e","s","i","g","n">>, topic_lower)
      THEN _create_design_test_questions(expertise)
      ELSE _create_general_tech_test_questions(expertise)

-----------------------------------------------------------------------------
(* Static career analysis                                                   *)

_create_career_analysis_for_domain(domain, skills, expertise) ==
  IF domain = "software_development" THEN software_development_analysis
  ELSE IF domain = "data_science" THEN data_science_analysis
  ELSE default_analysis

\* the skills classification without its first branch
DomainFromSkillsWithoutSoftware(skills_lower) ==
  IF AnyIn(<<<<"d","a","t","a">>, <<"a","n","a","l","y","t","i","c","s">>, <<"s","q","l">>, <<"p","a","n","d","a","s">>, <<"s","t","a","t","i","s","t","i","c","s">>, <<"m","a","c","h","i","n","e"," ","l","e","a","r","n","i","n","g">>>>,
           skills_lower)
  THEN "data_science"
  ELSE "general_tech"

\* lines 293-304 and, again, lines 307-318
DomainFromSkills(skills_lower) ==
  IF AnyIn(<<<<"p","y","t","h","o","n">>, <<"j","a","v","a","s","c","r","i","p","t">>, <<"j","a","v","a">>, <<"p","r","o","g","r","a","m","m","i","n","g">>, <<"c","o","d","i","n","g">>, <<"r","e","a","c","t">>, <<"n","o","d","e">>>>,
           skills_lower)
  THEN "software_development"
  ELSE IF AnyIn(<<<<"d","a","t","a">>, <<"a","n","a","l","y","t","i","c","s">>, <<"s","q","l">>, <<"p","a","n","d","a","s">>, <<"s","t","a","t","i","s","t","i","c","s">>, <<"m","a","c","h","i","n","e"," ","l","e","a","r","n","i","n","g">>>>,
                skills_lower)
  THEN "data_science"
  ELSE IF AnyIn(<<<<"d","e","s","i","g","n">>, <<"u","i">>, <<"u","x">>, <<"p","h","o","t","o","s","h","o","p">>, <<"f","i","g","m","a">>, <<"a","d","o","b","e">>>>, skills_lower)
  THEN "design"
  ELSE IF AnyIn(<<<<"m","a","r","k","e","t","i","n","g">>, <<"s","o","c","i","a","l"," ","m","e","d","i","a">>, <<"s","e","o">>, <<"c","o","n","t","e","n","t">>, <<"a","d","v","e","r","t","i","s","i","n","g">>>>,
                skills_lower)
  THEN "marketing"
  ELSE IF AnyIn(<<<<"p","r","o","j","e","c","t"," ","m","a","n","a","g","e","m","e","n","t">>, <<"a","g","i","l","e">>, <<"s","c","r","u","m">>, <<"l","e","a","d","e","r","s","h","i","p">>>>, skills_lower)
  THEN "project_management"
  ELSE "general_tech"

\* lines 271-289; "" stands for primary_domain = None
DomainFromTopic(topic) ==
  LET topic_lower == Lower(topic)
  IN  IF topic # <<>> /\ topic_lower # <<"a","l","l">>
      THEN IF InList(topic_lower, <<<<"a","i">>, <<"a","r","t","i","f","i","c","i","a","l"," ","i","n","t","e","l","l","i","g","e","n","c","e">>, <<"m","a","c","h","i","n","e"," ","l","e","a","r","n","i","n","g">>>>)
           THEN "ai_ml"
           ELSE IF InList(topic_lower, <<<<"w","e","b"," ","d","e","v","e","l","o","p","m","e","n","t">>, <<"w","e","b"," ","d","e","v">>, <<"f","r","o","n","t","e","n","d">>, <<"b","a","c","k","e","n","d">>>>)
           THEN "web_development"
           ELSE IF InList(topic_lower, <<<<"d","a","t","a"," ","s","c","i","e","n","c","e">>, <<"d","a","t","a"," ","a","n","a","l","y","s","i","s">>, <<"a","n","a","l","y","t","i","c","s">>>>)
           THEN "data_science"
           ELSE IF InList(topic_lower, <<<<"m","o","b","i","l","e"," ","d","e","v","e","l","o","p","m","e","n","t">>, <<"m","o","b","i","l","e">>, <<"a","p","p"," ","d","e","v","e","l","o","p","m","e","n","t">>>>)
           THEN "mobile_development"
           ELSE IF InList(topic_lower, <<<<"d","e","v","o","p","s">>, <<"c","l","o","u","d">>, <<"a","w","s">>, <<"d","o","c","k","e","r">>>>)
           THEN "devops"
           ELSE IF InList(topic_lower, <<<<"c","y","b","e","r","s","e","c","u","r","i","t","y">>, <<"s","e","c","u","r","i","t","y">>, <<"i","n","f","o","s","e","c">>>>)
           THEN "cybersecurity"
           ELSE IF InList(topic_lower, <<<<"d","e","s","i","g","n">>, <<"u","i","/","u","x"," ","d","e","s","i","g","n">>, <<"u","i">>, <<"u","x">>>>)
           THEN "design"
           ELSE IF InList(topic_lower, <<<<"b","l","o","c","k","c","h","a","i","n">>, <<"c","r","y","p","t","o">>, <<"w","e","b","3">>>>)
           THEN "blockchain"
           ELSE IF InList(topic_lower, <<<<"g","a","m","e"," ","d","e","v","e","l","o","p","m","e","n","t">>, <<"g","a","m","e","d","e","v">>, <<"g","a","m","i","n","g">>>>)
           THEN "game_development"
           ELSE ""
      ELSE ""

\* the domain the function ends up with: the second block (lines 307-318)
\* reassigns primary_domain from the skills whatever the first block chose
PrimaryDomain(skills, topic) ==
  LET skills_lower == Lower(skills)
      from_topic == DomainFromTopic(topic)
      first == IF from_topic = "" THEN DomainFromSkills(skills_lower) ELSE from_topic
  IN  DomainFromSkills(skills_lower)

_create_enhanced_fallback_response(skills, expertise, topic) ==
  _create_career_analysis_for_domain(PrimaryDomain(skills, topic), skills, expertise)

-----------------------------------------------------------------------------
(* Provider replies.  A reply text is a sequence of tokens: prose, the four *)
(* bracket characters the code searches for, members of a JSON object and   *)
(* elements of a JSON array (whose inner syntax is not spelled out).        *)

Tok(k, f, n, wf) == [k |-> k, f |-> f, n |-> n, wf |-> wf]

Prose == Tok("prose", "", 0, TRUE)
LBrace == Tok("{", "", 0, TRUE)
RBrace == Tok("}", "", 0, TRUE)
LBracket == Tok("[", "", 0, TRUE)
RBracket == Tok("]", "", 0, TRUE)

\* "f": value, where value holds n entries; wf: the entries carry every field
Member(f, n, wf) == Tok("member", f, n, wf)

\* one element of a JSON array
Item(f, wf) == Tok("item", f, 0, wf)

Repeat(x, n) == IF n <= 0 THEN <<>> ELSE [i \in 1..n |-> x]

Object(members) == <<LBrace>> \o members \o <<RBrace>>
Array(items) == <<LBracket>> \o items \o <<RBracket>>

\* the values generated entries carry
GenPath(wf) ==
  IF wf THEN [title |-> "generated", description |-> "generated",
              required_skills |-> <<"generated">>, salary_range |-> "generated",
              growth_prospect |-> "generated"]
  ELSE [title |-> "generated"]

GenStep(i, wf) ==
  IF wf THEN [step |-> i, title |-> "generated", description |-> "generated",
              duration |-> "generated", resources |-> <<"generated">>]
  ELSE [title |-> "generated"]

GenCourse(wf) ==
  IF wf THEN [title |-> "generated", provider |-> "generated", duration |-> "generated",
              difficulty |-> "Beginner", url |-> "generated"]
  ELSE [title |-> "generated"]

GenResource(wf) ==
  IF wf THEN [title |-> "generated", url |-> "generated"] ELSE [title |-> "generated"]

GenQuestion(wf) ==
  IF wf THEN [question |-> "generated", answer |-> "generated"]
  ELSE [question |-> "generated"]

GenSkills == <<<<"R","e","a","c","t">>, <<"G","o">>, <<"S","Q","L">>>>

\* the Python value of an object member
MemberValue(m) ==
  CASE m.f = "career_paths" -> Repeat(GenPath(m.wf), m.n)
    [] m.f = "selected_path" -> GenPath(m.wf)
    [] m.f = "roadmap" -> IF m.n <= 0 THEN <<>> ELSE [i \in 1..m.n |-> GenStep(i, m.wf)]
    [] m.f = "courses" -> Repeat(GenCourse(m.wf), m.n)
    [] m.f = "youtube_courses" -> Repeat(GenResource(m.wf), m.n)
    [] m.f = "articles" -> Repeat(GenResource(m.wf), m.n)
    [] m.f = "extracted_skills" -> SubSeq(GenSkills, 1, m.n)
    [] m.f = "updated_skills" -> Join(SubSeq(GenSkills, 1, m.n), <<","," ">>)
    [] OTHER -> <<"g","e","n","e","r","a","t","e","d">>

\* the Python value of an array element
ItemValue(it) ==
  IF it.f = "qa" THEN GenQuestion(it.wf)
  ELSE IF it.wf THEN [skill |-> <<"R","e","a","c","t">>, expertise_level |-> "beginner"]
  ELSE [skill |-> <<"R","e","a","c","t">>]

\* json.loads of a sliced text: an object of members or an array of elements;
\* anything else (empty string, prose or brackets inside) raises
IsJsonObject(s) ==
  /\ Len(s) >= 2 /\ s[1] = LBrace /\ s[Len(s)] = RBrace
  /\ \A i \in 2..(Len(s) - 1) : s[i].k = "member"

IsJsonArray(s) ==
  /\ Len(s) >= 2 /\ s[1] = LBracket /\ s[Len(s)] = RBracket
  /\ \A i \in 2..(Len(s) - 1) : s[i].k = "item"

\* a later duplicate key replaces an earlier one
JsonObjectValue(s) ==
  [f \in {s[i].f : i \in 2..(Len(s) - 1)} |->
     MemberValue(s[CHOOSE i \in 2..(Len(s) - 1) :
                     s[i].f = f /\ \A j \in (i + 1)..(Len(s) - 1) : s[j].f # f])]

JsonArrayValue(s) ==
  IF Len(s) = 2 THEN <<>> ELSE [i \in 1..(Len(s) - 2) |-> ItemValue(s[i + 1])]

json_loads(s) ==
  IF IsJsonObject(s) THEN [ok |-> TRUE, value |-> JsonObjectValue(s)]
  ELSE IF IsJsonArray(s) THEN [ok |-> TRUE, value |-> JsonArrayValue(s)]
  ELSE [ok |-> FALSE, value |-> <<>>]

\* find(open) / rfind(close) + 1 / slice / json.loads, as every operation does
\* it; ok is FALSE both when the condition fails and when json.loads raises
ExtractJson(text, open, close) ==
  LET start_idx == Find(text, open)
      end_idx == RFind(text, close) + 1
  IN  IF start_idx # -1 /\ end_idx # -1
      THEN json_loads(Slice(text, start_idx, end_idx))
      ELSE [ok |-> FALSE, value |-> <<>>]

\* [MockTestQuestion(**q) for q in questions_data] raises when an element
\* lacks question or answer
ValidQuestion(q) == {"question", "answer"} \subseteq DOMAIN q

Ops == {"career", "mock", "extract", "levels", "resources"}

ArrayOps == {"mock", "levels"}

\* what one stage makes of a reply text: [ok, value]; ok is FALSE when the
\* stage ends in its except clause or falls out of its if
ParseReply(o, text) ==
  IF o \in ArrayOps
  THEN LET r == ExtractJson(text, LBracket, RBracket)
       IN  IF ~r.ok THEN r
           ELSE IF o = "mock"
           THEN IF \A i \in 1..Len(r.value) : ValidQuestion(r.value[i])
                THEN r ELSE [ok |-> FALSE, value |-> <<>>]
           ELSE [ok |-> TRUE, value |-> [extracted_skills |-> r.value]]
  ELSE ExtractJson(text, LBrace, RBrace)

\* the reply an operation's prompt asks for
AskedBody(o, limit) ==
  CASE o = "career" ->
         Object(<<Member("career_paths", 3, TRUE), Member("selected_path", 1, TRUE),
                  Member("roadmap", 5, TRUE), Member("courses", 3, TRUE)>>)
    [] o = "resources" ->
         Object(<<Member("youtube_courses", limit, TRUE), Member("articles", limit, TRUE)>>)
    [] o = "extract" ->
         Object(<<Member("extracted_skills", 1, TRUE), Member("updated_skills", 1, TRUE),
                  Member("bot_response", 1, TRUE)>>)
    [] o = "mock" -> Array(Repeat(Item("qa", TRUE), 5))
    [] o = "levels" -> Array(<<Item("skill", TRUE)>>)

\* other JSON a provider may send: too many or too few entries, entries or
\* members missing, nothing inside
OtherBodies(o, limit) ==
  CASE o = "career" ->
         {Object(<<Member("career_paths", 3 + MaxExtra, TRUE), Member("selected_path", 1, TRUE),
                   Member("roadmap", 5 + MaxExtra, TRUE), Member("courses", 5 + MaxExtra, TRUE)>>),
          Object(<<Member("career_paths", 3, FALSE), Member("roadmap", 5, TRUE)>>),
          Object(<<>>)}
    [] o = "resources" ->
         {Object(<<Member("youtube_courses", limit + MaxExtra, TRUE),
                   Member("articles", limit + MaxExtra, TRUE)>>),
          Object(<<Member("youtube_courses", limit, FALSE)>>)}
    [] o = "extract" ->
         {Object(<<Member("extracted_skills", 0, TRUE), Member("updated_skills", 0, TRUE),
                   Member("bot_response", 1, TRUE)>>),
          Object(<<Member("extracted_skills", 1, TRUE), Member("updated_skills", 1, TRUE)>>),
          Object(<<Member("bot_response", 1, TRUE)>>)}
    [] o = "mock" ->
         {Array(Repeat(Item("qa", TRUE), 5 + MaxExtra)),
          Array(Repeat(Item("qa", TRUE), 2)),
          Array(<<Item("qa", TRUE), Item("qa", FALSE)>>),
          Array(<<>>)}
    [] o = "levels" ->
         {Array(<<Item("skill", FALSE)>>), Array(<<>>)}

\* replies: the bodies bare, the asked body inside prose and after prose that
\* has brackets of its own, and texts the slicing cannot use
Texts(o, limit) ==
  {AskedBody(o, limit)} \cup OtherBodies(o, limit)
  \cup {<<Prose>> \o AskedBody(o, limit) \o <<Prose>>,
        <<LBrace, Prose, RBrace, LBracket, Prose, RBracket>> \o AskedBody(o, limit)}
  \cup {<<>>, <<Prose>>, <<Prose, LBrace, LBracket, Prose>>,
        <<RBrace, RBracket, Prose, LBrace, LBracket>>}

-----------------------------------------------------------------------------
(* Shapes of the artifacts                                                  *)

HasFields(d, fields) == fields \subseteq DOMAIN d

PathFields == {"title", "description", "required_skills", "salary_range", "growth_prospect"}
StepFields == {"step", "title", "description", "duration", "resources"}
CourseFields == {"title", "provider", "duration", "difficulty", "url"}

AllHave(list, fields) == \A i \in 1..Len(list) : HasFields(list[i], fields)

\* every field of the artifact is present and every entry carries its fields
WellFormed(o, v) ==
  CASE o = "career" ->
         /\ HasFields(v, {"career_paths", "selected_path", "roadmap", "courses"})
         /\ AllHave(v.career_paths, PathFields)
         /\ HasFields(v.selected_path, PathFields)
         /\ AllHave(v.roadmap, StepFields)
         /\ AllHave(v.courses, CourseFields)
    [] o = "mock" ->
         /\ HasFields(v, {"test_id", "questions", "user_id", "created_at"})
         /\ AllHave(v.questions, {"question", "answer"})
    [] o = "extract" ->
         HasFields(v, {"extracted_skills", "updated_skills", "bot_response"})
    [] o = "levels" ->
         /\ HasFields(v, {"extracted_skills"})
         /\ AllHave(v.extracted_skills, {"skill", "expertise_level"})
    [] o = "resources" ->
         /\ HasFields(v, {"youtube_courses", "articles"})
         /\ AllHave(v.youtube_courses, {"title", "url"})
         /\ AllHave(v.articles, {"title", "url"})

Returned == pc \in {"return", "done"}

-----------------------------------------------------------------------------
(* Start-up: AIService.__init__ and its helpers                             *)

\* what the environment decides: cloud libraries importable, primary model
\* initialised, document-store client created, local server answering its
\* probe, credentials and endpoint configured
EnvSet ==
  {e \in [import_ok : BOOLEAN, init_ok : BOOLEAN, fs_ok : BOOLEAN, ollama_up : BOOLEAN,
          hf_key : BOOLEAN, openai_url : BOOLEAN, openai_key : BOOLEAN] :
     /\ e.init_ok => e.import_ok
     /\ e.fs_ok => e.import_ok}

\* builds the header from whatever the variable holds, "" included
_init_huggingface(e) == TRUE

_init_ollama(e) == e.ollama_up

\* the chat-completion API enabled by its endpoint URL alone
_init_openai_freeUrlOnly(e) == e.openai_url

_init_openai_free(e) == e.openai_url /\ e.openai_key

InitVertex(e) == e.import_ok /\ e.init_ok

\* the client created whatever became of the primary model
InitFirestoreUnguarded(e) == e.fs_ok

InitFirestore(e) == InitVertex(e) /\ e.fs_ok

Idle ==
  /\ pc = "idle"
  /\ op = "none"
  /\ route = "none"
  /\ args = NoArgs
  /\ attempts = <<>>
  /\ ai_response = <<>>
  /\ questions = <<>>
  /\ result = NoResult
  /\ source = "none"
  /\ status = "none"
  /\ writes = <<>>
  /\ response = NoResponse

Init ==
  /\ env \in EnvSet
  /\ VERTEX_AI_AVAILABLE = env.import_ok
  /\ vertex_ai_available = InitVertex(env)
  /\ model = InitVertex(env)
  /\ firestore_client = InitFirestore(env)
  /\ fallback_apis = [huggingface |-> _init_huggingface(env),
                      ollama |-> _init_ollama(env),
                      openai_free |-> _init_openai_free(env)]
  /\ stored_skills = <<>>
  /\ Idle

-----------------------------------------------------------------------------
(* Calls                                                                    *)

SkillInputs == {<<"H","T","M","L",","," ","C","S","S",","," ","J","a","v","a","S","c","r","i","p","t">>, <<"P","y","t","h","o","n">>, <<"S","Q","L">>, <<"c","o","o","k","i","n","g">>}
ExpertiseInputs == {<<"B","e","g","i","n","n","e","r">>, <<"A","d","v","a","n","c","e","d">>}
TopicInputs == {<<>>, <<"d","e","s","i","g","n">>}
LimitInputs == {1, 3}
MessageInputs == {<<"I"," ","m","a","s","t","e","r","e","d"," ","D","o","c","k","e","r"," ","a","n","d"," ","s","t","a","r","t","e","d"," ","l","e","a","r","n","i","n","g"," ","K","u","b","e","r","n","e","t","e","s">>,
                  <<"l","e","a","r","n","e","d"," ","p","y","t","h","o","n"," ","a","n","d"," ","R","e","a","c","t">>,
                  <<"h","e","l","l","o">>}
CurrentInputs == {<<>>, <<"P","y","t","h","o","n",","," ","S","Q","L">>}

CallArgs(o) ==
  CASE o \in {"career", "mock"} ->
         {[NoArgs EXCEPT !.skills = s, !.expertise = x, !.topic = t] :
            s \in SkillInputs, x \in ExpertiseInputs, t \in TopicInputs}
    [] o = "resources" ->
         {[NoArgs EXCEPT !.skills = s, !.expertise = x, !.topic = t, !.limit = l] :
            s \in SkillInputs, x \in ExpertiseInputs, t \in TopicInputs, l \in LimitInputs}
    [] o = "extract" ->
         {[NoArgs EXCEPT !.message = m, !.current_skills = c] :
            m \in MessageInputs, c \in CurrentInputs}
    [] o = "levels" ->
         {[NoArgs EXCEPT !.message = m] : m \in MessageInputs}

\* the handlers that call each operation: /analyze, /chat/update-skills and
\* /resources; "direct" is any other caller of the service object
Routes(o) ==
  CASE o = "resources" -> {"/resources"}
    [] o = "career" -> {"direct", "/analyze"}
    [] o = "extract" -> {"direct", "/chat/update-skills"}
    [] OTHER -> {"direct"}

\* /analyze passes skills and expertise only; /chat/update-skills passes the
\* authenticated user's skills, or "" for an anonymous caller
RouteArgs(o, r) ==
  CASE r = "/analyze" -> {a \in CallArgs(o) : a.topic = <<>>}
    [] r = "/chat/update-skills" ->
         {[p[1] EXCEPT !.current_user = p[2]] :
            p \in {q \in CallArgs(o) \X BOOLEAN : q[2] \/ q[1].current_skills = <<>>}}
    [] OTHER -> CallArgs(o)

\* a caller, or a route handler, enters an operation
Call ==
  /\ pc = "idle"
  /\ \E o \in Ops : \E r \in Routes(o) : \E a \in RouteArgs(o, r) :
       /\ op' = o
       /\ args' = a
       /\ route' = r
  /\ pc' = "vertex"
  /\ UNCHANGED <<svc, attempts, ai_response, questions, result, source, status, writes,
                 response>>

\* a stage's success that does not end the chain
AcceptAndGoOn(o, value, src) ==
  /\ source' = src
  /\ pc' = "static"
  /\ IF o = "mock"
     THEN /\ questions' = value
          /\ UNCHANGED <<result, status>>
     ELSE /\ result' = [kind |-> o, value |-> value]
          /\ status' = "returned"
          /\ UNCHANGED questions

\* a stage's success that keeps an empty question list
AcceptEmptyList(o, value, src) ==
  IF o = "mock"
  THEN /\ questions' = value
       /\ pc' = "persist"
       /\ source' = src
       /\ UNCHANGED <<result, status>>
  ELSE /\ result' = [kind |-> o, value |-> value]
       /\ status' = "returned"
       /\ source' = src
       /\ pc' = "return"
       /\ UNCHANGED questions

\* a stage's success: the mock test keeps its questions and goes on to the
\* empty check and the persistence block, the other operations return at once
Accept(o, value, src) ==
  IF o = "mock"
  THEN /\ questions' = value
       /\ pc' = IF value # <<>> THEN "persist" ELSE IF src = "vertex" THEN "ollama" ELSE "static"
       /\ source' = IF value # <<>> THEN src ELSE source
       /\ UNCHANGED <<result, status>>
  ELSE /\ result' = [kind |-> o, value |-> value]
       /\ status' = "returned"
       /\ source' = src
       /\ pc' = "return"
       /\ UNCHANGED questions

\* the primary stage switching itself off when its request fails
VertexStageDisablesOnFailure ==
  /\ pc = "vertex"
  /\ IF vertex_ai_available /\ model
     THEN /\ attempts' = Append(attempts, "vertex")
          /\ \/ /\ pc' = "ollama"
                /\ vertex_ai_available' = FALSE
                /\ UNCHANGED <<questions, result, source, status>>
             \/ \E text \in Texts(op, args.limit) :
                  LET r == ParseReply(op, text)
                  IN  /\ UNCHANGED vertex_ai_available
                      /\ IF r.ok THEN Accept(op, r.value, "vertex")
                         ELSE /\ pc' = "ollama"
                              /\ UNCHANGED <<questions, result, source, status>>
     ELSE /\ pc' = "ollama"
          /\ UNCHANGED <<vertex_ai_available, attempts, questions, result, source, status>>
  /\ UNCHANGED <<env, VERTEX_AI_AVAILABLE, model, firestore_client, fallback_apis,
                 stored_skills, op, args, route, ai_response, writes, response>>

\* "Try Vertex AI first if available": generate_content raises, or answers a text
VertexStage ==
  /\ pc = "vertex"
  /\ IF vertex_ai_available /\ model
     THEN /\ attempts' = Append(attempts, "vertex")
          /\ \/ /\ pc' = "ollama"
                /\ UNCHANGED <<questions, result, source, status>>
             \/ \E text \in Texts(op, args.limit) :
                  LET r == ParseReply(op, text)
                  IN  IF r.ok THEN Accept(op, r.value, "vertex")
                      ELSE /\ pc' = "ollama"
                           /\ UNCHANGED <<questions, result, source, status>>
     ELSE /\ pc' = "ollama"
          /\ UNCHANGED <<attempts, questions, result, source, status>>
  /\ UNCHANGED <<svc, op, args, route, ai_response, writes, response>>

\* a block that asks its provider a second time after a failure
FallbackStageRetry(here, name, next) ==
  /\ pc = here
  /\ IF fallback_apis[name]
     THEN /\ attempts' = Append(attempts, name)
          /\ \/ /\ pc' = IF \E i \in 1..Len(attempts) : attempts[i] = name THEN next ELSE here
                /\ UNCHANGED ai_response
             \/ \E text \in Texts(op, args.limit) :
                  /\ pc' = "parse"
                  /\ ai_response' = text
     ELSE /\ pc' = next
          /\ UNCHANGED <<attempts, ai_response>>
  /\ UNCHANGED <<svc, op, args, route, questions, result, source, status, writes, response>>

\* a block that hands its text on and lets the next block ask as well
FallbackStageKeepsAsking(here, name, next) ==
  /\ pc = here
  /\ IF fallback_apis[name]
     THEN /\ attempts' = Append(attempts, name)
          /\ \/ /\ pc' = next
                /\ UNCHANGED ai_response
             \/ \E text \in Texts(op, args.limit) :
                  /\ pc' = next
                  /\ ai_response' = text
     ELSE /\ pc' = next
          /\ UNCHANGED <<attempts, ai_response>>
  /\ UNCHANGED <<svc, op, args, route, questions, result, source, status, writes, response>>

\* a block whose request has no timeout and never completes
FallbackStageBlocks(here, name, next) ==
  /\ pc = here
  /\ ~fallback_apis[name]
  /\ pc' = next
  /\ UNCHANGED <<svc, op, args, route, attempts, ai_response, questions, result, source,
                 status, writes, response>>

\* one block of _generate_with_fallback_ai: skipped when disabled; the request
\* raises or times out, answers a non-200 status, answers without the expected
\* envelope, or answers a text, which the function returns
FallbackStage(here, name, next) ==
  /\ pc = here
  /\ IF fallback_apis[name]
     THEN /\ attempts' = Append(attempts, name)
          /\ \/ /\ pc' = next
                /\ UNCHANGED ai_response
             \/ \E text \in Texts(op, args.limit) :
                  /\ pc' = "parse"
                  /\ ai_response' = text
     ELSE /\ pc' = next
          /\ UNCHANGED <<attempts, ai_response>>
  /\ UNCHANGED <<svc, op, args, route, questions, result, source, status, writes, response>>

OllamaStage == FallbackStage("ollama", "ollama", "hf")

HuggingFaceStage == FallbackStage("hf", "huggingface", "openai")

\* after the last block the function returns None
OpenAIStage == FallbackStage("openai", "openai_free", "parse")

\* "if ai_response:" and the slicing of the fallback text
ParseFallback ==
  /\ pc = "parse"
  /\ IF ai_response # <<>>
     THEN LET r == ParseReply(op, ai_response)
          IN  IF r.ok THEN Accept(op, r.value, "fallback_ai")
              ELSE /\ pc' = "static"
                   /\ UNCHANGED <<questions, result, source, status>>
     ELSE /\ pc' = "static"
          /\ UNCHANGED <<questions, result, source, status>>
  /\ UNCHANGED <<svc, op, args, route, attempts, ai_response, writes, response>>

\* "Fallback to static ..."
StaticFallback ==
  /\ pc = "static"
  /\ source' = "static"
  /\ IF op = "mock"
     THEN /\ questions' = _create_enhanced_fallback_test(args.skills, args.expertise, args.topic)
          /\ pc' = "persist"
          /\ UNCHANGED <<result, status>>
     ELSE /\ \E choice \in 1..Len(encouraging_responses) :
               result' = [kind |-> op, value |->
                 CASE op = "career" ->
                        _create_enhanced_fallback_response(args.skills, args.expertise, args.topic)
                   [] op = "extract" ->
                        _create_enhanced_fallback_skill_response(args.message,
                                                                 args.current_skills, choice)
                   [] op = "levels" -> _extract_skills_fallback(args.message)
                   [] op = "resources" ->
                        _create_enhanced_fallback_resources(args.skills, args.expertise,
                                                            args.limit, args.topic)]
          /\ status' = "returned"
          /\ pc' = "return"
          /\ UNCHANGED questions
  /\ UNCHANGED <<svc, op, args, route, attempts, ai_response, writes, response>>

\* generate_mock_test from "Generate test ID" to its return: test_data reads
\* firestore.SERVER_TIMESTAMP, a name the failed import never bound; the write
\* is guarded by the client and wrapped in try/except
MockTestResult(qs) ==
  [test_id |-> "test_id", questions |-> qs, user_id |-> "user_id",
   created_at |-> "created_at"]

PersistMockTest ==
  /\ pc = "persist"
  /\ IF ~VERTEX_AI_AVAILABLE
     THEN /\ status' = "raised"
          /\ result' = [kind |-> "NameError", value |-> <<>>]
          /\ UNCHANGED writes
     ELSE /\ status' = "returned"
          /\ result' = [kind |-> "mock", value |-> MockTestResult(questions)]
          /\ IF firestore_client
             THEN \E ok \in BOOLEAN :
                    writes' = Append(writes, [store |-> "mock_tests", ok |-> ok])
             ELSE UNCHANGED writes
  /\ pc' = "return"
  /\ UNCHANGED <<svc, op, args, route, attempts, ai_response, questions, source, response>>

\* the operation hands its outcome to a direct caller
Return ==
  /\ pc = "return"
  /\ route = "direct"
  /\ pc' = "done"
  /\ UNCHANGED <<svc, op, args, route, attempts, ai_response, questions, result, source,
                 status, writes, response>>

\* routes/resources.py get_learning_resources after the service call: the
\* record for the store is built, saved inside its own try/except, and the
\* response model is built; a KeyError or a validation error anywhere becomes
\* the handler's HTTP 500
ValidResource(c) == {"title", "url"} \subseteq DOMAIN c

ResourcesResponse(resources) ==
  IF /\ {"youtube_courses", "articles"} \subseteq DOMAIN resources
     /\ \A i \in 1..Len(resources.youtube_courses) : ValidResource(resources.youtube_courses[i])
     /\ \A i \in 1..Len(resources.articles) : ValidResource(resources.articles[i])
  THEN [code |-> 200,
        body |-> [youtube_courses |-> resources.youtube_courses,
                  articles |-> resources.articles,
                  resource_id |-> "resource_id", created_at |-> "created_at"]]
  ELSE [code |-> 500, body |-> [detail |-> "Failed to generate learning resources"]]

get_learning_resources ==
  /\ pc = "return"
  /\ route = "/resources"
  /\ IF {"youtube_courses", "articles"} \subseteq DOMAIN result.value
     THEN \E ok \in BOOLEAN :
            writes' = Append(writes, [store |-> "resources", ok |-> ok])
     ELSE UNCHANGED writes
  /\ response' = ResourcesResponse(result.value)
  /\ pc' = "done"
  /\ UNCHANGED <<svc, op, args, route, attempts, ai_response, questions, result, source,
                 status>>

\* routes/analyze.py analyze_career_paths after the service call: the four
\* members are indexed and each entry is converted to its model; a missing
\* member or field raises inside the try and becomes the handler's HTTP 500
AnalyzeResponse(analysis) ==
  IF WellFormed("career", analysis)
  THEN [code |-> 200,
        body |-> [career_paths |-> analysis.career_paths,
                  selected_path |-> analysis.selected_path,
                  roadmap |-> analysis.roadmap,
                  courses |-> analysis.courses]]
  ELSE [code |-> 500, body |-> [detail |-> "Error analyzing career paths"]]

analyze_career_paths ==
  /\ pc = "return"
  /\ route = "/analyze"
  /\ response' = AnalyzeResponse(result.value)
  /\ pc' = "done"
  /\ UNCHANGED <<svc, op, args, route, attempts, ai_response, questions, result, source,
                 status, writes>>

\* routes/chat.py update_skills_via_chat after the service call: an
\* authenticated user's profile is updated when skills were extracted, inside
\* its own try/except; the response is built from the three members, and a
\* missing member becomes the handler's HTTP 500
ChatResponse(skill_data, updated_user) ==
  IF {"bot_response", "extracted_skills", "updated_skills"} \subseteq DOMAIN skill_data
  THEN [code |-> 200,
        body |-> [bot_message |-> skill_data.bot_response,
                  extracted_skills |-> skill_data.extracted_skills,
                  updated_skills |-> skill_data.updated_skills,
                  user |-> updated_user]]
  ELSE [code |-> 500, body |-> [detail |-> "Error processing chat message"]]

update_skills_via_chat ==
  /\ pc = "return"
  /\ route = "/chat/update-skills"
  /\ LET skill_data == result.value
     IN  IF /\ args.current_user
            /\ "extracted_skills" \in DOMAIN skill_data
            /\ skill_data.extracted_skills # <<>>
         THEN IF "updated_skills" \in DOMAIN skill_data
              THEN \E ok \in BOOLEAN :
                     /\ writes' = Append(writes, [store |-> "users", ok |-> ok,
                                                  skills |-> skill_data.updated_skills])
                     /\ response' = ChatResponse(skill_data, IF ok THEN "user" ELSE "None")
              ELSE /\ UNCHANGED writes
                   /\ response' = ChatResponse(skill_data, "None")
         ELSE /\ UNCHANGED writes
              /\ response' = ChatResponse(skill_data, "None")
  /\ pc' = "done"
  /\ UNCHANGED <<svc, op, args, route, attempts, ai_response, questions, result, source,
                 status>>

\* the caller has its answer; the next call starts from fresh locals
Finish ==
  /\ pc = "done"
  /\ pc' = "idle"
  /\ op' = "none"
  /\ route' = "none"
  /\ args' = NoArgs
  /\ attempts' = <<>>
  /\ ai_response' = <<>>
  /\ questions' = <<>>
  /\ result' = NoResult
  /\ source' = "none"
  /\ status' = "none"
  /\ writes' = <<>>
  /\ response' = NoResponse
  /\ UNCHANGED svc

Next ==
  \/ Call
  \/ VertexStage
  \/ OllamaStage
  \/ HuggingFaceStage
  \/ OpenAIStage
  \/ ParseFallback
  \/ StaticFallback
  \/ PersistMockTest
  \/ Return
  \/ get_learning_resources
  \/ analyze_career_paths
  \/ update_skills_via_chat
  \/ Finish

Spec == Init /\ [][Next]_vars

-----------------------------------------------------------------------------
(* Progress of a call: the handler's thread runs each step, and every       *)
(* request it issues completes or ends in its timeout                       *)

CallStep ==
  \/ VertexStage
  \/ OllamaStage
  \/ HuggingFaceStage
  \/ OpenAIStage
  \/ ParseFallback
  \/ StaticFallback
  \/ PersistMockTest
  \/ Return
  \/ get_learning_resources
  \/ analyze_career_paths
  \/ update_skills_via_chat

\* the calls of the fair specification: one argument list for each
\* operation and route (how long a call runs does not depend on the texts)
LiveArgs(o, r) ==
  {a \in RouteArgs(o, r) :
     /\ a.skills \in {<<>>, <<"S","Q","L">>}
     /\ a.expertise \in {<<>>, <<"B","e","g","i","n","n","e","r">>}
     /\ a.topic = <<>>
     /\ a.limit \in {1, 5}
     /\ a.message \in {<<>>, <<"h","e","l","l","o">>}
     /\ a.current_skills = <<>>}

CallLive ==
  /\ pc = "idle"
  /\ \E o \in Ops : \E r \in Routes(o) : \E a \in LiveArgs(o, r) :
       /\ op' = o
       /\ args' = a
       /\ route' = r
  /\ pc' = "vertex"
  /\ UNCHANGED <<svc, attempts, ai_response, questions, result, source, status, writes,
                 response>>

NextLive == CallLive \/ CallStep \/ Finish

SpecLive == Init /\ [][NextLive]_vars /\ WF_vars(CallStep)

-----------------------------------------------------------------------------
(* The static merge on its own: a message and a stored skill string are     *)
(* drawn, the merge is applied, its output is stored and merged again       *)

AllDisabled == [import_ok |-> TRUE, init_ok |-> FALSE, fs_ok |-> FALSE, ollama_up |-> FALSE,
                hf_key |-> FALSE, openai_url |-> FALSE, openai_key |-> FALSE]

InitMerge ==
  /\ env = AllDisabled
  /\ VERTEX_AI_AVAILABLE = env.import_ok
  /\ vertex_ai_available = InitVertex(env)
  /\ model = InitVertex(env)
  /\ firestore_client = InitFirestore(env)
  /\ fallback_apis = [huggingface |-> _init_huggingface(env),
                      ollama |-> _init_ollama(env),
                      openai_free |-> _init_openai_free(env)]
  /\ pc = "m_start"
  /\ op = "extract"
  /\ route = "direct"
  /\ \E m \in MergeMessages : \E c \in MergeCurrents :
       /\ args = [NoArgs EXCEPT !.message = m, !.current_skills = c]
       /\ stored_skills = c
  /\ attempts = <<>>
  /\ ai_response = <<>>
  /\ questions = <<>>
  /\ result = NoResult
  /\ source = "none"
  /\ status = "none"
  /\ writes = <<>>
  /\ response = NoResponse

MergeStep(here, next) ==
  /\ pc = here
  /\ \E choice \in 1..Len(encouraging_responses) :
       result' = [kind |-> "extract", value |->
                    _create_enhanced_fallback_skill_response(args.message, stored_skills, choice)]
  /\ stored_skills' = result'.value.updated_skills
  /\ source' = "static"
  /\ status' = "returned"
  /\ pc' = next
  /\ UNCHANGED <<env, VERTEX_AI_AVAILABLE, vertex_ai_available, model, firestore_client,
                 fallback_apis, op, args, route, attempts, ai_response, questions, writes,
                 response>>

MergeOnce == MergeStep("m_start", "m_once")

MergeAgain == MergeStep("m_once", "m_twice")

NextMerge == MergeOnce \/ MergeAgain

SpecMerge == InitMerge /\ [][NextMerge]_vars

-----------------------------------------------------------------------------
(* The static extractor on its own: a message is drawn and                  *)
(* _extract_skills_fallback is applied to it                                *)

\* pieces of messages with skill words, several spellings of one skill, and
\* cue words of each class
ExtractFrags == {<<"I"," ","m","a","s","t","e","r","e","d"," ","D","o","c","k","e","r"," ">>, <<"s","t","a","r","t","e","d"," ","l","e","a","r","n","i","n","g"," ","K","u","b","e","r","n","e","t","e","s"," ">>,
                 <<"g","o","t"," ","b","e","t","t","e","r"," ","a","t"," ","p","y","t","h","o","n"," ">>, <<"u","s","i","n","g"," ","R","e","a","c","t"," ">>, <<"n","o","d","e","j","s"," ","a","n","d"," ","N","o","d","e",".","j","s"," ">>,
                 <<"p","y","t","h","o","n"," ">>, <<"j","a","v","a"," ","a","n","d"," ","J","a","v","a","S","c","r","i","p","t"," ">>, <<"h","e","l","l","o"," ">>}

ExtractMessages == {Join(fs, <<>>) : fs \in SeqsUpTo(ExtractFrags, MaxFrags)}

InitExtract ==
  /\ env = AllDisabled
  /\ VERTEX_AI_AVAILABLE = env.import_ok
  /\ vertex_ai_available = InitVertex(env)
  /\ model = InitVertex(env)
  /\ firestore_client = InitFirestore(env)
  /\ fallback_apis = [huggingface |-> _init_huggingface(env),
                      ollama |-> _init_ollama(env),
                      openai_free |-> _init_openai_free(env)]
  /\ stored_skills = <<>>
  /\ pc = "x_start"
  /\ op = "levels"
  /\ route = "direct"
  /\ \E m \in ExtractMessages : args = [NoArgs EXCEPT !.message = m]
  /\ attempts = <<>>
  /\ ai_response = <<>>
  /\ questions = <<>>
  /\ result = NoResult
  /\ source = "none"
  /\ status = "none"
  /\ writes = <<>>
  /\ response = NoResponse

ExtractStep ==
  /\ pc = "x_start"
  /\ result' = [kind |-> "levels", value |-> _extract_skills_fallback(args.message)]
  /\ source' = "static"
  /\ status' = "returned"
  /\ pc' = "x_done"
  /\ UNCHANGED <<svc, op, args, route, attempts, ai_response, questions, writes, response>>

NextExtract == ExtractStep

SpecExtract == InitExtract /\ [][NextExtract]_vars

-----------------------------------------------------------------------------
(* Claims                                                                   *)

\* C1: no operation ever raises to its caller: whatever start-up, the
\* providers and the persistence layer did, a call that has ended has
\* returned a result.
C1_NeverRaises == Returned => status = "returned"

\* C2: the value generate_career_analysis returns has exactly 3 career
\* paths, one selected path, 5 roadmap steps numbered 1..5 in order and 3 to
\* 5 courses, whichever stage produced it.
C2_AnalysisCounts ==
  (Returned /\ op = "career" /\ status = "returned") =>
    LET v == result.value
    IN  /\ HasFields(v, {"career_paths", "selected_path", "roadmap", "courses"})
        /\ Len(v.career_paths) = 3
        /\ Len(v.roadmap) = 5
        /\ \A i \in 1..Len(v.roadmap) : HasFields(v.roadmap[i], {"step"}) /\ v.roadmap[i].step = i
        /\ Len(v.courses) \in 3..5

\* C3: generate_mock_test returns exactly 5 question/answer pairs, whichever
\* stage produced them.
C3_FiveQuestions ==
  (Returned /\ op = "mock" /\ status = "returned") =>
    /\ Len(result.value.questions) = 5
    /\ AllHave(result.value.questions, {"question", "answer"})

\* C4: the youtube_courses and articles lists generate_learning_resources
\* returns are each at most `limit` long, also when a provider sent more.
C4_WithinLimit ==
  (Returned /\ op = "resources" /\ status = "returned") =>
    LET v == result.value
    IN  /\ HasFields(v, {"youtube_courses"}) => Len(v.youtube_courses) <= args.limit
        /\ HasFields(v, {"articles"}) => Len(v.articles) <= args.limit

\* C5: when the static fallback is what is left (every provider stage failed
\* or is disabled), career analysis, mock test, skill extraction and learning
\* resources each return a well-formed, non-empty result.
C5_StaticAlwaysAnswers ==
  (Returned /\ source = "static" /\ op \in {"career", "mock", "extract", "resources"}) =>
    /\ status = "returned"
    /\ WellFormed(op, result.value)
    /\ op = "career" => result.value.career_paths # <<>> /\ result.value.roadmap # <<>>
                        /\ result.value.courses # <<>>
    /\ op = "mock" => result.value.questions # <<>>
    /\ op = "extract" => result.value.bot_response # <<>>
    /\ op = "resources" => result.value.youtube_courses # <<>> /\ result.value.articles # <<>>

\* C6: every returned artifact is well-formed: a provider answer that parses
\* as JSON but lacks fields is discarded, never returned.
C6_ValidatedShape ==
  (Returned /\ status = "returned") => WellFormed(op, result.value)

\* C7: for "I mastered Docker and started learning Kubernetes" the static
\* extractor gives Docker the level expert or advanced and Kubernetes the
\* level beginner (each skill's level comes from the cues around it).
C7_Message == <<"I"," ","m","a","s","t","e","r","e","d"," ","D","o","c","k","e","r"," ","a","n","d"," ","s","t","a","r","t","e","d"," ","l","e","a","r","n","i","n","g"," ","K","u","b","e","r","n","e","t","e","s">>

LevelsOf(entries, name) ==
  {entries[i].expertise_level : i \in {j \in 1..Len(entries) : entries[j].skill = name}}

C7_PerSkillLevel ==
  (Returned /\ op = "levels" /\ source = "static" /\ args.message = C7_Message) =>
    /\ LevelsOf(result.value.extracted_skills, <<"D","o","c","k","e","r">>) \cap {"expert", "advanced"} # {}
    /\ "beginner" \in LevelsOf(result.value.extracted_skills, <<"K","u","b","e","r","n","e","t","e","s">>)

\* C8: the static merge returns the trimmed non-empty current skills
\* followed by the extracted skills, without any entry that equals an earlier
\* one ignoring case, each kept entry in the casing of its first occurrence,
\* joined by ", ": "Python, SQL" merged with Python and React gives
\* "Python, SQL, React".
FirstSeenIdx(all) ==
  {i \in 1..Len(all) : \A j \in 1..(i - 1) : Lower(all[j]) # Lower(all[i])}

FirstSeen(all) ==
  LET keep == FirstSeenIdx(all)
  IN  [k \in 1..Cardinality(keep) |->
         all[CHOOSE i \in keep : Cardinality({j \in keep : j <= i}) = k]]

\* the entries of a ", "-joined string
RECURSIVE SplitJoined(_)
SplitJoined(s) ==
  IF s = <<>> THEN <<>>
  ELSE IF \E i \in 1..(Len(s) - 1) : s[i] = "," /\ s[i + 1] = " "
  THEN LET i == CHOOSE i \in 1..(Len(s) - 1) :
                  /\ s[i] = "," /\ s[i + 1] = " "
                  /\ \A j \in 1..(i - 1) : ~(s[j] = "," /\ s[j + 1] = " ")
       IN  <<SubSeq(s, 1, i - 1)>> \o SplitJoined(SubSeq(s, i + 2, Len(s)))
  ELSE <<s>>

C8_MergeFirstSeen ==
  pc = "m_once" =>
    LET all == CurrentSkillsList(args.current_skills) \o result.value.extracted_skills
        out == SplitJoined(result.value.updated_skills)
    IN  /\ Len(out) = Cardinality(FirstSeenIdx(all))
        /\ \A k \in 1..Len(out) : out[k] = FirstSeen(all)[k]
        /\ (args.current_skills = <<"P","y","t","h","o","n",","," ","S","Q","L">>
            /\ result.value.extracted_skills = <<<<"P","y","t","h","o","n">>, <<"R","e","a","c","t">>>>)
           => result.value.updated_skills = <<"P","y","t","h","o","n",","," ","S","Q","L",","," ","R","e","a","c","t">>

C8_Witness ==
  /\ pc = "m_once"
  /\ args.current_skills = <<"P","y","t","h","o","n",","," ","S","Q","L">>
  /\ result.value.extracted_skills = <<<<"P","y","t","h","o","n">>, <<"R","e","a","c","t">>>>
  /\ result.value.updated_skills = <<"P","y","t","h","o","n",","," ","S","Q","L",","," ","R","e","a","c","t">>

\* C9: the static merge is idempotent: merging the same message into the
\* string the first merge produced leaves that string as it is.
C9_MergeIdempotent == [][pc = "m_once" => stored_skills' = stored_skills]_vars

C9_Witness ==
  /\ pc = "m_twice"
  /\ result.value.extracted_skills # <<>>
  /\ stored_skills # args.current_skills

\* C10: what the caller gets does not depend on the persistence write:
\* generate_mock_test returns its questions, and the /resources handler
\* answers from the generated resources alone, whether the write succeeded,
\* raised, or no document-store client exists.
C10_PersistenceTransparent ==
  pc = "done" =>
    /\ op = "mock" => /\ status = "returned"
                      /\ result.value.questions = questions
    /\ route = "/resources" => response = ResourcesResponse(result.value)


\* C11: a well-formed request to /analyze or /chat/update-skills is never
\* answered with a server error, whatever the providers returned: the
\* handler's response is the 200 one.
C11_NoServerError ==
  (pc = "done" /\ route \in {"/analyze", "/chat/update-skills"}) => response.code = 200

\* C12: for skills "HTML, CSS, JavaScript" and expertise "Beginner", with no
\* provider answering, generate_career_analysis returns the
\* software-development analysis, whose course list is non-empty and holds a
\* course of difficulty Beginner.
C12_Scenario ==
  /\ op = "career"
  /\ source = "static"
  /\ args.skills = <<"H","T","M","L",","," ","C","S","S",","," ","J","a","v","a","S","c","r","i","p","t">>
  /\ args.expertise = <<"B","e","g","i","n","n","e","r">>

C12_BeginnerSoftware ==
  (Returned /\ C12_Scenario) =>
    /\ result.value = software_development_analysis
    /\ result.value.courses # <<>>
    /\ \E i \in 1..Len(result.value.courses) : result.value.courses[i].difficulty = "Beginner"

C12_Witness ==
  /\ Returned
  /\ C12_Scenario
  /\ ~vertex_ai_available
  /\ attempts = <<"huggingface">>
  /\ result.value.selected_path.title = "Software Engineer"

\* the stages in their order, and which of them start-up enabled
StageOrder == <<"vertex", "ollama", "huggingface", "openai_free", "static">>

StageEnabled(s) ==
  CASE s = "vertex" -> vertex_ai_available /\ model
    [] s = "static" -> TRUE
    [] OTHER -> fallback_apis[s]

Requested(s) == \E i \in 1..Len(attempts) : attempts[i] = s

StageAttempted(s) == IF s = "static" THEN source = "static" ELSE Requested(s)

\* the stage whose output was accepted, if any: the last one requested
Winner ==
  IF source \in {"vertex", "fallback_ai"} THEN attempts[Len(attempts)] ELSE "none"

\* C13: within one call the stages are attempted in the order primary model,
\* local server, hosted inference API, chat-completion API, static fallback:
\* the requests made are in that order, and a stage is attempted only when
\* every earlier enabled stage has been attempted (and failed) in the call.
C13_StrictOrder ==
  /\ \A i, j \in 1..Len(attempts) :
       i < j => \E a, b \in 1..4 : a < b /\ StageOrder[a] = attempts[i]
                                   /\ StageOrder[b] = attempts[j]
  /\ \A b \in 1..5 :
       StageAttempted(StageOrder[b]) =>
         \A a \in 1..(b - 1) :
           StageEnabled(StageOrder[a]) =>
             /\ StageAttempted(StageOrder[a])
             /\ StageOrder[a] # Winner

\* C14: when a stage fails, whatever the failure, and a later provider stage
\* is enabled, that stage is attempted before the static fallback is used: a
\* call that uses the static fallback has requested every enabled provider.
C14_FallThrough ==
  source = "static" =>
    \A s \in {"vertex", "ollama", "huggingface", "openai_free"} :
      StageEnabled(s) => Requested(s)

\* C15: once a stage's output is accepted as the result, the call makes no
\* further provider request and does not run the static generator.
C15_WinnerEndsChain ==
  [][(source \in {"vertex", "fallback_ai"} /\ pc # "done")
       => (attempts' = attempts /\ source' = source)]_vars

C15_Witness ==
  /\ pc = "done"
  /\ source = "vertex"
  /\ attempts = <<"vertex">>
  /\ fallback_apis.ollama
  /\ fallback_apis.openai_free

\* C16: in one call each provider stage is requested at most once; a failed
\* stage is not retried.
C16_AtMostOnce ==
  \A i, j \in 1..Len(attempts) : i # j => attempts[i] # attempts[j]

C16_Witness ==
  /\ Returned
  /\ source = "static"
  /\ attempts = <<"vertex", "ollama", "huggingface", "openai_free">>

\* C17: the hosted inference API is requested only when its access
\* credential is configured in the environment.
C17_CredentialGate == Requested("huggingface") => env.hf_key

\* C18: the local model server is requested only if its liveness probe
\* succeeded at start-up, and the chat-completion API only if both its
\* endpoint URL and its credential were configured at start-up.
C18_DisabledNeverAsked ==
  /\ Requested("ollama") => env.ollama_up
  /\ Requested("openai_free") => (env.openai_url /\ env.openai_key)

C18_Witness ==
  /\ Returned
  /\ source = "static"
  /\ ~env.ollama_up
  /\ env.openai_url /\ ~env.openai_key
  /\ attempts = <<"vertex", "huggingface">>

\* C19: in the static fallback a recognised topic decides the content: when
\* the topic names a domain, career analysis and learning resources return
\* that domain's content, whatever the skills string would classify to.
C19_TopicFirst ==
  (Returned /\ source = "static" /\ DomainFromTopic(args.topic) # "") =>
    /\ op = "career" =>
         result.value = _create_career_analysis_for_domain(DomainFromTopic(args.topic),
                                                           args.skills, args.expertise)
    /\ op = "resources" =>
         result.value = _create_enhanced_fallback_resources(args.topic, args.expertise,
                                                            args.limit, <<>>)

\* C20: from the moment the last provider stage has failed until the call's
\* result is computed, no provider is requested and no error occurs.
C20_StaticPathLocal ==
  [][(pc = "static" \/ (source = "static" /\ pc \in {"persist", "return"}))
       => (attempts' = attempts /\ status' # "raised")]_vars

\* C22: the list the static extractor returns never holds two entries whose
\* skill names are equal ignoring case; of the entries several vocabulary
\* patterns produce for one skill name, only the first is kept, in order.
C22_Matched == SkillNames(MatchPatterns(Lower(args.message), 1))

C22_NoDuplicateSkill ==
  pc = "x_done" =>
    LET out == result.value.extracted_skills
    IN  /\ \A i, j \in 1..Len(out) : i # j => Lower(out[i].skill) # Lower(out[j].skill)
        /\ Len(out) = Cardinality(FirstSeenIdx(C22_Matched))
        /\ \A k \in 1..Len(out) : out[k].skill = FirstSeen(C22_Matched)[k]

C22_Witness ==
  /\ pc = "x_done"
  /\ Len(result.value.extracted_skills) >= 2
  /\ Len(C22_Matched) > Len(result.value.extracted_skills)

\* C28 as stated: every skill extracted from one message carries the same
\* level: expert when an expert cue is anywhere in the message, otherwise
\* intermediate when an intermediate cue is, otherwise beginner (a beginner
\* cue, or no cue at all).
C28_Lower == Lower(args.message)

C28_ThreeCueClasses ==
  pc = "x_done" =>
    \A i \in 1..Len(result.value.extracted_skills) :
      result.value.extracted_skills[i].expertise_level =
        (IF AnyIn(ExpertCues, C28_Lower) THEN "expert"
         ELSE IF AnyIn(IntermediateCues, C28_Lower) THEN "intermediate"
         ELSE "beginner")

\* C28 as amended: every skill extracted from one message carries the same
\* level: expert exactly when an expert cue is in the message; intermediate
\* exactly when no expert cue is and either an intermediate cue is, or no
\* beginner cue is and an improvement cue (improved, better) is; beginner in
\* every other case.
C28_OneLevelPerMessage ==
  pc = "x_done" =>
    \A i \in 1..Len(result.value.extracted_skills) :
      LET level == result.value.extracted_skills[i].expertise_level
          expert == AnyIn(ExpertCues, C28_Lower)
          mid == \/ AnyIn(IntermediateCues, C28_Lower)
                 \/ (~AnyIn(BeginnerCues, C28_Lower) /\ AnyIn(ImprovedCues, C28_Lower))
      IN  /\ level \in {"expert", "intermediate", "beginner"}
          /\ (level = "expert") <=> expert
          /\ (level = "intermediate") <=> (~expert /\ mid)

C28_Witness ==
  /\ pc = "x_done"
  /\ Len(result.value.extracted_skills) >= 2
  /\ AnyIn(BeginnerCues, C28_Lower)
  /\ AnyIn(ImprovedCues, C28_Lower)
  /\ \A i \in 1..Len(result.value.extracted_skills) :
       result.value.extracted_skills[i].expertise_level = "beginner"

\* C23: the static bot_response follows the number of extracted skills: one
\* skill gives the single-skill sentence naming it; two or more give the
\* multi-skill sentence listing them as "X, Y and Z"; none gives one of the
\* four fixed encouraging phrases.
RECURSIVE C23_Listing(_)
C23_Listing(names) ==
  IF Len(names) = 2 THEN names[1] \o <<" ","a","n","d"," ">> \o names[2]
  ELSE names[1] \o <<","," ">> \o C23_Listing(Tail(names))

C23_BotResponse ==
  pc = "m_once" =>
    LET names == result.value.extracted_skills
        said == result.value.bot_response
    IN  /\ Len(names) = 1 =>
             said = <<"G","r","e","a","t"," ","j","o","b"," ","l","e","a","r","n","i","n","g"," ">> \o names[1] \o <<"!"," ","T","h","a","t","'","s"," ","a"," ","v","a","l","u","a","b","l","e"," ","s","k","i","l","l"," ","t","h","a","t"," ","w","i","l","l"," ","s","e","r","v","e"," ","y","o","u"," ","w","e","l","l"," ","i","n"," ","y","o","u","r"," ","c","a","r","e","e","r"," ","j","o","u","r","n","e","y","."," ","K","e","e","p"," ","u","p"," ","t","h","e"," ","e","x","c","e","l","l","e","n","t"," ","w","o","r","k","!">>
        /\ Len(names) >= 2 =>
             said = <<"W","o","w",","," ","y","o","u","'","v","e"," ","b","e","e","n"," ","b","u","s","y","!"," ","L","e","a","r","n","i","n","g"," ">> \o C23_Listing(names) \o <<" ","s","h","o","w","s"," ","r","e","a","l"," ","d","e","d","i","c","a","t","i","o","n"," ","t","o"," ","y","o","u","r"," ","p","r","o","f","e","s","s","i","o","n","a","l"," ","g","r","o","w","t","h","."," ","T","h","e","s","e"," ","s","k","i","l","l","s"," ","w","i","l","l"," ","d","e","f","i","n","i","t","e","l","y"," ","b","o","o","s","t"," ","y","o","u","r"," ","c","a","r","e","e","r"," ","p","r","o","s","p","e","c","t","s","!">>
        /\ Len(names) = 0 =>
             \E k \in 1..4 : said = encouraging_responses[k]

C23_Witness ==
  /\ pc = "m_once"
  /\ Len(result.value.extracted_skills) >= 3
  /\ Contains(<<","," ">>, result.value.bot_response)
  /\ Contains(<<" ","a","n","d"," ">>, result.value.bot_response)

\* C24: the availability state computed at start-up (the primary-model flag
\* and model, and the enabled flag of each fallback provider) is left as it
\* is by every step of every operation call, whatever the stages did.
C24_FlagsFrame ==
  [][/\ vertex_ai_available' = vertex_ai_available
     /\ model' = model
     /\ fallback_apis' = fallback_apis]_vars

C24_Witness ==
  /\ pc = "done"
  /\ source = "static"
  /\ attempts = <<"vertex", "ollama", "huggingface">>
  /\ vertex_ai_available
  /\ fallback_apis.ollama

\* the profile writes of the /chat/update-skills handler in this call
UserWrites == SelectSeq(writes, LAMBDA w : w.store = "users")

\* C25: the /chat/update-skills handler writes the profile only for an
\* authenticated caller whose extraction returned a non-empty
\* extracted_skills list; when that write fails the handler still answers
\* with the bot message, extracted_skills and updated_skills and attaches no
\* user.
C25_ProfileWrite ==
  (pc = "done" /\ route = "/chat/update-skills") =>
    /\ UserWrites # <<>> =>
         /\ args.current_user
         /\ "extracted_skills" \in DOMAIN result.value
         /\ result.value.extracted_skills # <<>>
    /\ (UserWrites # <<>> /\ ~UserWrites[1].ok) =>
         /\ response.code = 200
         /\ response.body.bot_message = result.value.bot_response
         /\ response.body.extracted_skills = result.value.extracted_skills
         /\ response.body.updated_skills = result.value.updated_skills
         /\ response.body.user = "None"

\* C26: an authenticated /chat/update-skills call that updates the profile
\* never drops a skill: every skill of the stored string before the call is,
\* ignoring case, in the string written to the profile.
C26_NoSkillLost ==
  (pc = "done" /\ route = "/chat/update-skills" /\ args.current_user) =>
    \A i \in 1..Len(UserWrites) :
      UserWrites[i].ok =>
        LET before == CurrentSkillsList(args.current_skills)
            after == CurrentSkillsList(UserWrites[i].skills)
        IN  \A b \in 1..Len(before) :
              \E a \in 1..Len(after) : Lower(after[a]) = Lower(before[b])

\* C27: in one call the fallback chain yields at most one text: the first
\* fallback provider that answers with its envelope ends the chain, no later
\* fallback provider is requested, and that text is the only fallback output
\* the operation goes on to parse.
C27_OneFallbackText ==
  [][/\ (ai_response' # ai_response /\ pc # "done") =>
          (ai_response = <<>> /\ pc' = "parse")
     /\ pc \in {"parse", "static", "persist", "return"} =>
          (attempts' = attempts /\ ai_response' = ai_response)]_vars

C27_Witness ==
  /\ pc = "done"
  /\ source = "fallback_ai"
  /\ attempts = <<"ollama">>
  /\ ai_response # <<>>
  /\ fallback_apis.huggingface
  /\ fallback_apis.openai_free

\* C29: whenever generate_mock_test returns, its questions list is
\* non-empty: a stage that yields an empty array counts as failed and the
\* chain goes on to the next stage or to the static questions.
C29_NonEmptyQuestions ==
  (Returned /\ op = "mock" /\ status = "returned") => result.value.questions # <<>>

C29_Witness ==
  /\ pc = "done"
  /\ op = "mock"
  /\ status = "returned"
  /\ attempts = <<"vertex", "huggingface">>
  /\ source = "static"
  /\ Len(result.value.questions) = 5

\* C30: generate_mock_test attempts a persistence write only if start-up
\* created the document-store client, and start-up creates the client only
\* if the primary model initialised; with the primary model unavailable no
\* write is ever attempted.
C30_WriteGate ==
  /\ firestore_client => (vertex_ai_available /\ model)
  /\ (\E i \in 1..Len(writes) : writes[i].store = "mock_tests") => firestore_client

C30_Witness ==
  /\ pc = "done"
  /\ op = "mock"
  /\ status = "returned"
  /\ env.fs_ok
  /\ ~vertex_ai_available
  /\ writes = <<>>

\* C21: every call of an operation ends: once a call has started, each
\* request it issues completes or times out and the chain moves on, until the
\* call has handed its outcome to the caller.
C21_Terminates == (pc = "vertex") ~> (pc = "done")

C21_Witness ==
  /\ pc = "done"
  /\ attempts = <<"vertex", "ollama", "huggingface", "openai_free">>
  /\ ai_response # <<>>
  /\ source = "static"
====
